---- MODULE Spec2Model ----
(***************************************************************************)
(* A model of crumb's validation engine (src/validator.ts): schemas are    *)
(* objects on a heap, built by chained builder calls that mutate or wrap   *)
(* them, and parse(data, path) is a recursive descent over the schema      *)
(* tree that returns a value, raises a ValidationError carrying issues, or *)
(* lets a foreign exception of a user transform escape.  toJsonSchema()    *)
(* exports a schema as a document, and an App (src/app.ts) answers         *)
(* requests whose handlers validate with a schema.                         *)
(***************************************************************************)
EXTENDS Integers, Sequences, FiniteSets, TLC

VARIABLES heap, last, app, stream

vars == <<heap, last, app, stream>>

(***************************************************************************)
(* Bounds.                                                                 *)
(***************************************************************************)
\* number of builder contributions (nodes, checks, messages) on the heap
\* when schemas are parsed with
MaxSize == 3
\* number of builder contributions on the heap when schemas are only
\* described
MaxDescribed == 4
\* largest bound handed to min(n) / max(n)
MaxBound == 2
\* most member schemas handed to union([...])
MaxMembers == 2
\* longest array value handed to parse
MaxArrayLen == 2
\* most routes registered on an App
MaxRoutes == 3
\* most routes registered on an App that has groups and middleware
MaxGroupRoutes == 2
\* most middleware registered with use
MaxMiddlewares == 2
\* most chunks in the body of a streamed response
MaxChunks == 3

(***************************************************************************)
(* JavaScript values.  A number is n, or n + 1/2 when half is set; NaN has *)
(* its own tag (typeof NaN is "number", Number.isNaN(NaN) is true).  An    *)
(* object is the sequence of its entries in insertion order.               *)
(***************************************************************************)
Undef == [t |-> "undefined"]
Null == [t |-> "null"]
NaN == [t |-> "nan"]
Str(s) == [t |-> "string", s |-> s]
Num(n) == [t |-> "number", n |-> n, half |-> FALSE]
NumHalf(n) == [t |-> "number", n |-> n, half |-> TRUE]
Bool(b) == [t |-> "boolean", b |-> b]
Arr(items) == [t |-> "array", items |-> items]
Obj(entries) == [t |-> "object", entries |-> entries]
Entry(k, v) == [k |-> k, v |-> v]

\* obj[key]: the value of the entry, undefined when the key is absent
RECURSIVE Lookup(_, _)
Lookup(entries, key) ==
  IF entries = <<>> THEN Undef
  ELSE IF Head(entries).k = key THEN Head(entries).v
  ELSE Lookup(Tail(entries), key)

Keys(entries) == {entries[i].k : i \in 1..Len(entries)}

(***************************************************************************)
(* Results of a parse call: a returned value, a ValidationError with its   *)
(* issues, or a foreign exception.  heap is the schema heap the call       *)
(* leaves, data the argument as the call leaves it, and calls the calls    *)
(* made directly below it, each with its own outcome and calls (sub).      *)
(***************************************************************************)
Issue(path, message) == [path |-> path, message |-> message]

\* the call schema.parse(data, path) on schema id, which ended as r
ParseEv(id, data, path, r) ==
  [ev |-> "parse", id |-> id, path |-> path, data |-> data, kind |-> r.kind,
   val |-> r.val, issues |-> r.issues, err |-> r.err, sub |-> r.calls]

\* the call fn(arg) made by transform schema id, which ended as f
FnEv(id, arg, f) ==
  [ev |-> "fn", id |-> id, path |-> "", data |-> arg,
   kind |-> IF f.threw THEN "throw" ELSE "return",
   val |-> f.val, issues |-> <<>>, err |-> f.err, sub |-> <<>>]

Ret(h, data, v, calls) ==
  [kind |-> "return", val |-> v, issues |-> <<>>, err |-> "",
   calls |-> calls, heap |-> h, data |-> data]

\* throw new ValidationError(issues)
ValidationError(h, data, issues, calls) ==
  [kind |-> "invalid", val |-> Undef, issues |-> issues, err |-> "",
   calls |-> calls, heap |-> h, data |-> data]

\* an exception that is not a ValidationError
Throw(h, data, err, calls) ==
  [kind |-> "throw", val |-> Undef, issues |-> <<>>, err |-> err,
   calls |-> calls, heap |-> h, data |-> data]

\* the issues of the calls evs, in the order of the calls
RECURSIVE ConcatIssues(_)
ConcatIssues(evs) ==
  IF evs = <<>> THEN <<>> ELSE Head(evs).issues \o ConcatIssues(Tail(evs))

\* a result with the calls made before it put in front of its own
After(calls, r) == [r EXCEPT !.calls = calls \o @]

\* the result r of schema.parse(data, path), seen from the caller
Called(id, data, path, r) == [r EXCEPT !.calls = <<ParseEv(id, data, path, r)>>]

\* Schema.fail: one issue at path, the custom message if one was set
fail(h, id, data, path, defaultMessage) ==
  ValidationError(h, data,
    <<Issue(path, IF h[id]._customMessage # <<>>
                  THEN h[id]._customMessage[1] ELSE defaultMessage)>>,
    <<>>)

(***************************************************************************)
(* Regular expressions: a literal, optionally anchored with ^ and $, with  *)
(* flags "" or "g".  RegExp.prototype.test searches from lastIndex when    *)
(* the regex is global and stores where the match ended (0 on failure); a  *)
(* regex without the g flag always searches from 0 and keeps lastIndex.    *)
(***************************************************************************)
RegExp(source, flags) == [source |-> source, flags |-> flags, lastIndex |-> 0]

IsGlobal(re) == re.flags = "g"
HasBol(re) == Len(re.source) > 0 /\ SubSeq(re.source, 1, 1) = "^"
HasEol(re) ==
  Len(re.source) > 0 /\ SubSeq(re.source, Len(re.source), Len(re.source)) = "$"
\* the literal between the anchors
Literal(re) ==
  SubSeq(re.source, IF HasBol(re) THEN 2 ELSE 1,
         IF HasEol(re) THEN Len(re.source) - 1 ELSE Len(re.source))

\* 0-based start positions >= from at which re matches s
MatchesFrom(re, s, from) ==
  {p \in from..(Len(s) - Len(Literal(re))) :
     /\ SubSeq(s, p + 1, p + Len(Literal(re))) = Literal(re)
     /\ (HasBol(re) => p = 0)
     /\ (HasEol(re) => p + Len(Literal(re)) = Len(s))}

MinOf(S) == CHOOSE x \in S : \A y \in S : x <= y

\* re.test(s): the answer and the regex as the call leaves it
RegExpTest(re, s) ==
  LET from == IF IsGlobal(re) THEN re.lastIndex ELSE 0
      ms == MatchesFrom(re, s, from)
  IN IF ms = {}
     THEN [ok |-> FALSE,
           re |-> IF IsGlobal(re) THEN [re EXCEPT !.lastIndex = 0] ELSE re]
     ELSE [ok |-> TRUE,
           re |-> IF IsGlobal(re)
                  THEN [re EXCEPT !.lastIndex = MinOf(ms) + Len(Literal(re))]
                  ELSE re]

\* `${re}`: /source/flags
RegExpToString(re) == "/" \o re.source \o "/" \o re.flags

(***************************************************************************)
(* Schema nodes.  A schema is a heap cell; inner, shape and schemas hold   *)
(* references (heap indices).  _customMessage is <<>> while unset.         *)
(***************************************************************************)
Node(kind) ==
  [kind |-> kind, checks |-> <<>>, _customMessage |-> <<>>, inner |-> 0,
   item |-> 0, valueSchema |-> 0, shape |-> <<>>, schemas |-> <<>>, fn |-> ""]

Check(kind, value) == [kind |-> kind, value |-> value]

(***************************************************************************)
(* The user function handed to transform():                                *)
(*   (x) => { if (x === 1) throw new Error("boom"); return x.length; }     *)
(* x.length is a TypeError on null and undefined, the length of a string   *)
(* or an array, and undefined on any other value.                          *)
(***************************************************************************)
ApplyFn(fn, x) ==
  IF x = Num(1) THEN [threw |-> TRUE, err |-> "Error: boom", val |-> Undef]
  ELSE IF x.t \in {"undefined", "null"}
       THEN [threw |-> TRUE, err |-> "TypeError", val |-> Undef]
  ELSE IF x.t = "string" THEN [threw |-> FALSE, err |-> "", val |-> Num(Len(x.s))]
  ELSE IF x.t = "array" THEN [threw |-> FALSE, err |-> "", val |-> Num(Len(x.items))]
  ELSE [threw |-> FALSE, err |-> "", val |-> Undef]

(***************************************************************************)
(* parse(data, path), one operator per schema class.  h is the heap the    *)
(* call starts from; a result's calls are the calls made below it.         *)
(***************************************************************************)
RECURSIVE Parse(_, _, _, _)
RECURSIVE StringChecks(_, _, _, _, _)
RECURSIVE NumberChecks(_, _, _, _, _)
RECURSIVE ArrayChecks(_, _, _, _, _)
RECURSIVE ArrayItems(_, _, _, _, _, _, _, _)
RECURSIVE ObjectFields(_, _, _, _, _, _, _, _)
RECURSIVE RecordEntries(_, _, _, _, _, _, _, _)
RECURSIVE UnionMembers(_, _, _, _, _, _)

\* StringSchema.parse as it would be if it collected the issue of every
\* failing constraint instead of raising at the first
StringChecksCollectAll(h, id, data, path, i) ==
  IF i > Len(h[id].checks) THEN Ret(h, data, data, <<>>)
  ELSE LET check == h[id].checks[i]
           rest == StringChecks(h, id, data, path, i + 1)
           mine ==
             IF check.kind = "min" /\ Len(data.s) < check.value
             THEN <<Issue(path, "String must be at least "
                                \o ToString(check.value) \o " characters")>>
             ELSE IF check.kind = "max" /\ Len(data.s) > check.value
             THEN <<Issue(path, "String must be at most "
                                \o ToString(check.value) \o " characters")>>
             ELSE IF check.kind = "pattern" /\ ~RegExpTest(check.value, data.s).ok
             THEN <<Issue(path, "String must match pattern "
                                \o RegExpToString(check.value))>>
             ELSE <<>>
       IN IF mine \o rest.issues = <<>> THEN rest
          ELSE ValidationError(rest.heap, data, mine \o rest.issues, <<>>)

\* StringSchema.parse as it would be if a constraint violation were raised
\* through this.fail, and so took the custom message
StringChecksOwnMessage(h, id, data, path, i) ==
  IF i > Len(h[id].checks) THEN Ret(h, data, data, <<>>)
  ELSE LET check == h[id].checks[i] IN
    IF check.kind = "min" /\ Len(data.s) < check.value
    THEN fail(h, id, data, path, "String must be at least "
                                 \o ToString(check.value) \o " characters")
    ELSE IF check.kind = "max" /\ Len(data.s) > check.value
    THEN fail(h, id, data, path, "String must be at most "
                                 \o ToString(check.value) \o " characters")
    ELSE IF check.kind = "pattern"
    THEN LET t == RegExpTest(check.value, data.s)
             h2 == [h EXCEPT ![id].checks[i].value = t.re]
         IN IF ~t.ok
            THEN fail(h2, id, data, path, "String must match pattern "
                                          \o RegExpToString(check.value))
            ELSE StringChecks(h2, id, data, path, i + 1)
    ELSE StringChecks(h, id, data, path, i + 1)

\* the check loop of StringSchema.parse, from check i on
StringChecks(h, id, data, path, i) ==
  IF i > Len(h[id].checks) THEN Ret(h, data, data, <<>>)
  ELSE LET check == h[id].checks[i] IN
    IF check.kind = "min" /\ Len(data.s) < check.value
    THEN ValidationError(h, data,
           <<Issue(path, "String must be at least " \o ToString(check.value)
                         \o " characters")>>, <<>>)
    ELSE IF check.kind = "max" /\ Len(data.s) > check.value
    THEN ValidationError(h, data,
           <<Issue(path, "String must be at most " \o ToString(check.value)
                         \o " characters")>>, <<>>)
    ELSE IF check.kind = "pattern"
    THEN LET t == RegExpTest(check.value, data.s)
             h2 == [h EXCEPT ![id].checks[i].value = t.re]
         IN IF ~t.ok
            THEN ValidationError(h2, data,
                   <<Issue(path, "String must match pattern "
                                 \o RegExpToString(check.value))>>, <<>>)
            ELSE StringChecks(h2, id, data, path, i + 1)
    ELSE StringChecks(h, id, data, path, i + 1)

StringParse(h, id, data, path) ==
  IF data.t # "string" THEN fail(h, id, data, path, "Expected string")
  ELSE StringChecks(h, id, data, path, 1)

\* data < c and data > c for a number data and an integer bound c
NumLess(data, c) == data.n < c
NumGreater(data, c) == data.n > c \/ (data.n = c /\ data.half)

\* the check loop of NumberSchema.parse, from check i on
NumberChecks(h, id, data, path, i) ==
  IF i > Len(h[id].checks) THEN Ret(h, data, data, <<>>)
  ELSE LET check == h[id].checks[i] IN
    IF check.kind = "min" /\ NumLess(data, check.value)
    THEN ValidationError(h, data,
           <<Issue(path, "Number must be at least " \o ToString(check.value))>>,
           <<>>)
    ELSE IF check.kind = "max" /\ NumGreater(data, check.value)
    THEN ValidationError(h, data,
           <<Issue(path, "Number must be at most " \o ToString(check.value))>>,
           <<>>)
    ELSE IF check.kind = "integer" /\ data.half
    THEN ValidationError(h, data,
           <<Issue(path, "Number must be an integer")>>, <<>>)
    ELSE NumberChecks(h, id, data, path, i + 1)

NumberParse(h, id, data, path) ==
  IF data.t # "number" THEN fail(h, id, data, path, "Expected number")
  ELSE NumberChecks(h, id, data, path, 1)

(***************************************************************************)
(* String.prototype.trim and Number(string), for the strings of the model: *)
(* trim strips the spaces at both ends; Number gives 0 for a blank string, *)
(* the value of a string of decimal digits, the value plus one half when   *)
(* the digits are followed by ".5", and NaN for the other strings parsed   *)
(* here, none of which is a numeric literal.                               *)
(***************************************************************************)
RECURSIVE trim(_)
trim(s) ==
  IF s = "" THEN s
  ELSE IF SubSeq(s, 1, 1) = " " THEN trim(SubSeq(s, 2, Len(s)))
  ELSE IF SubSeq(s, Len(s), Len(s)) = " " THEN trim(SubSeq(s, 1, Len(s) - 1))
  ELSE s

Digits == "0123456789"
DigitOf(c) == {d \in 0..9 : SubSeq(Digits, d + 1, d + 1) = c}
IsDigits(s) == \A i \in 1..Len(s) : DigitOf(SubSeq(s, i, i)) # {}

RECURSIVE IntVal(_)
IntVal(s) ==
  IF s = "" THEN 0
  ELSE 10 * IntVal(SubSeq(s, 1, Len(s) - 1))
       + (CHOOSE d \in DigitOf(SubSeq(s, Len(s), Len(s))) : TRUE)

Number(s) ==
  LET t == trim(s) IN
    IF t = "" THEN Num(0)
    ELSE IF IsDigits(t) THEN Num(IntVal(t))
    ELSE IF /\ Len(t) >= 3
            /\ SubSeq(t, Len(t) - 1, Len(t)) = ".5"
            /\ IsDigits(SubSeq(t, 1, Len(t) - 2))
    THEN NumHalf(IntVal(SubSeq(t, 1, Len(t) - 2)))
    ELSE NaN

\* CoercedNumberSchema.parse as it would be without the test trimmed === ""
CoercedNumberParseNoBlankTest(h, id, data, path) ==
  IF data.t = "string"
  THEN [NumberParse(h, id, Number(trim(data.s)), path) EXCEPT !.data = data]
  ELSE NumberParse(h, id, data, path)

\* CoercedNumberSchema.parse: super.parse is NumberSchema.parse
CoercedNumberParse(h, id, data, path) ==
  IF data.t = "string"
  THEN LET trimmed == trim(data.s) IN
    IF trimmed = "" THEN fail(h, id, data, path, "Expected number")
    ELSE [NumberParse(h, id, Number(trimmed), path) EXCEPT !.data = data]
  ELSE NumberParse(h, id, data, path)

OptionalParse(h, id, data, path) ==
  IF data = Undef THEN Ret(h, data, Undef, <<>>)
  ELSE Parse(h, h[id].inner, data, path)

\* NullableSchema.parse as it would be with the loose test data == null
NullableParseLoose(h, id, data, path) ==
  IF data = Null \/ data = Undef THEN Ret(h, data, Null, <<>>)
  ELSE Parse(h, h[id].inner, data, path)

NullableParse(h, id, data, path) ==
  IF data = Null THEN Ret(h, data, Null, <<>>)
  ELSE Parse(h, h[id].inner, data, path)

\* TransformSchema.parse as it would be if fn were handed the input instead
\* of what the inner schema returned
TransformParseOnInput(h, id, data, path) ==
  LET r == Parse(h, h[id].inner, data, path) IN
    IF r.kind # "return" THEN r
    ELSE LET f == ApplyFn(h[id].fn, data)
             calls == r.calls \o <<FnEv(id, data, f)>>
         IN IF f.threw THEN Throw(r.heap, data, f.err, calls)
            ELSE Ret(r.heap, data, f.val, calls)

\* this.fn(this.inner.parse(data, path))
TransformParse(h, id, data, path) ==
  LET r == Parse(h, h[id].inner, data, path) IN
    IF r.kind # "return" THEN r
    ELSE LET f == ApplyFn(h[id].fn, r.val)
             calls == r.calls \o <<FnEv(id, r.val, f)>>
         IN IF f.threw THEN Throw(r.heap, data, f.err, calls)
            ELSE Ret(r.heap, data, f.val, calls)

\* the length checks of ArraySchema.parse, from check i on; "ok" when all pass
ArrayChecks(h, id, data, path, i) ==
  IF i > Len(h[id].checks) THEN Ret(h, data, data, <<>>)
  ELSE LET check == h[id].checks[i] IN
    IF check.kind = "min" /\ Len(data.items) < check.value
    THEN ValidationError(h, data,
           <<Issue(path, "Array must have at least " \o ToString(check.value)
                         \o " items")>>, <<>>)
    ELSE IF check.kind = "max" /\ Len(data.items) > check.value
    THEN ValidationError(h, data,
           <<Issue(path, "Array must have at most " \o ToString(check.value)
                         \o " items")>>, <<>>)
    ELSE ArrayChecks(h, id, data, path, i + 1)

\* path ? `${path}[${i}]` : `[${i}]`
ItemPath(path, i) ==
  IF path # "" THEN path \o "[" \o ToString(i) \o "]"
  ELSE "[" \o ToString(i) \o "]"

\* ArraySchema.parse as it would be if it re-raised the first item failure
ArrayItemsFailFast(h, id, data, path, i, issues, result, calls) ==
  IF i >= Len(data.items) THEN Ret(h, data, Arr(result), calls)
  ELSE LET r == Parse(h, h[id].item, data.items[i + 1], ItemPath(path, i)) IN
    IF r.kind = "return"
    THEN ArrayItems(r.heap, id, data, path, i + 1, issues,
                    Append(result, r.val), calls \o r.calls)
    ELSE IF r.kind = "invalid"
    THEN ValidationError(r.heap, data, r.issues, calls \o r.calls)
    ELSE Throw(r.heap, data, r.err, calls \o r.calls)

\* the item loop of ArraySchema.parse, from index i (0-based) on
ArrayItems(h, id, data, path, i, issues, result, calls) ==
  IF i >= Len(data.items)
  THEN IF Len(issues) > 0 THEN ValidationError(h, data, issues, calls)
       ELSE Ret(h, data, Arr(result), calls)
  ELSE LET r == Parse(h, h[id].item, data.items[i + 1], ItemPath(path, i)) IN
    IF r.kind = "return"
    THEN ArrayItems(r.heap, id, data, path, i + 1, issues,
                    Append(result, r.val), calls \o r.calls)
    ELSE IF r.kind = "invalid"
    THEN ArrayItems(r.heap, id, data, path, i + 1, issues \o r.issues,
                    result, calls \o r.calls)
    ELSE Throw(r.heap, data, r.err, calls \o r.calls)

\* ArraySchema.parse as it would be if the length checks ran after the items
ArrayParseItemsFirst(h, id, data, path) ==
  IF data.t # "array" THEN fail(h, id, data, path, "Expected array")
  ELSE LET r == ArrayItems(h, id, data, path, 0, <<>>, <<>>, <<>>) IN
    IF r.kind # "return" THEN r
    ELSE LET c == ArrayChecks(r.heap, id, data, path, 1) IN
      IF c.kind # "return" THEN After(r.calls, c) ELSE r

ArrayParse(h, id, data, path) ==
  IF data.t # "array" THEN fail(h, id, data, path, "Expected array")
  ELSE LET c == ArrayChecks(h, id, data, path, 1) IN
    IF c.kind # "return" THEN c
    ELSE ArrayItems(h, id, data, path, 0, <<>>, <<>>, <<>>)

\* the field path as it would be without the case of the root
FieldPathAlwaysDotted(path, key) == path \o "." \o key

\* path ? `${path}.${key}` : key
FieldPath(path, key) == IF path # "" THEN path \o "." \o key ELSE key

\* ObjectSchema.parse as it would be if it re-raised the first field failure
ObjectFieldsFailFast(h, id, data, path, i, issues, result, calls) ==
  IF i > Len(h[id].shape) THEN Ret(h, data, Obj(result), calls)
  ELSE LET key == h[id].shape[i].key
           r == Parse(h, h[id].shape[i].schema, Lookup(data.entries, key),
                      FieldPath(path, key))
       IN
    IF r.kind = "return"
    THEN ObjectFields(r.heap, id, data, path, i + 1, issues,
                      IF r.val # Undef THEN Append(result, Entry(key, r.val))
                      ELSE result,
                      calls \o r.calls)
    ELSE IF r.kind = "invalid"
    THEN ValidationError(r.heap, data, r.issues, calls \o r.calls)
    ELSE Throw(r.heap, data, r.err, calls \o r.calls)

\* ObjectSchema.parse as it would be without the test value !== undefined
ObjectFieldsKeepUndefined(h, id, data, path, i, issues, result, calls) ==
  IF i > Len(h[id].shape)
  THEN IF Len(issues) > 0 THEN ValidationError(h, data, issues, calls)
       ELSE Ret(h, data, Obj(result), calls)
  ELSE LET key == h[id].shape[i].key
           r == Parse(h, h[id].shape[i].schema, Lookup(data.entries, key),
                      FieldPath(path, key))
       IN
    IF r.kind = "return"
    THEN ObjectFields(r.heap, id, data, path, i + 1, issues,
                      Append(result, Entry(key, r.val)), calls \o r.calls)
    ELSE IF r.kind = "invalid"
    THEN ObjectFields(r.heap, id, data, path, i + 1, issues \o r.issues,
                      result, calls \o r.calls)
    ELSE Throw(r.heap, data, r.err, calls \o r.calls)

\* the key loop of ObjectSchema.parse, from the i-th declared key on
ObjectFields(h, id, data, path, i, issues, result, calls) ==
  IF i > Len(h[id].shape)
  THEN IF Len(issues) > 0 THEN ValidationError(h, data, issues, calls)
       ELSE Ret(h, data, Obj(result), calls)
  ELSE LET key == h[id].shape[i].key
           r == Parse(h, h[id].shape[i].schema, Lookup(data.entries, key),
                      FieldPath(path, key))
       IN
    IF r.kind = "return"
    THEN ObjectFields(r.heap, id, data, path, i + 1, issues,
                      IF r.val # Undef THEN Append(result, Entry(key, r.val))
                      ELSE result,
                      calls \o r.calls)
    ELSE IF r.kind = "invalid"
    THEN ObjectFields(r.heap, id, data, path, i + 1, issues \o r.issues,
                      result, calls \o r.calls)
    ELSE Throw(r.heap, data, r.err, calls \o r.calls)

\* ObjectSchema.parse as it would be if result started as a copy of the
\* input ({...obj}) instead of {}
ObjectParseSpread(h, id, data, path) ==
  IF data.t # "object" THEN fail(h, id, data, path, "Expected object")
  ELSE ObjectFields(h, id, data, path, 1, <<>>,
                    SelectSeq(data.entries,
                              LAMBDA e : \A m \in 1..Len(h[id].shape) :
                                           h[id].shape[m].key # e.k),
                    <<>>)

ObjectParse(h, id, data, path) ==
  IF data.t # "object" THEN fail(h, id, data, path, "Expected object")
  ELSE ObjectFields(h, id, data, path, 1, <<>>, <<>>, <<>>)

\* RecordSchema.parse as it would be if it raised without the test
\* issues.length > 0
RecordEntriesAlwaysRaise(h, id, data, path, i, issues, result, calls) ==
  IF i > Len(data.entries) THEN ValidationError(h, data, issues, calls)
  ELSE LET key == data.entries[i].k
           r == Parse(h, h[id].valueSchema, data.entries[i].v,
                      FieldPath(path, key))
       IN
    IF r.kind = "return"
    THEN RecordEntries(r.heap, id, data, path, i + 1, issues,
                       Append(result, Entry(key, r.val)), calls \o r.calls)
    ELSE IF r.kind = "invalid"
    THEN RecordEntries(r.heap, id, data, path, i + 1, issues \o r.issues,
                       result, calls \o r.calls)
    ELSE Throw(r.heap, data, r.err, calls \o r.calls)

\* the entry loop of RecordSchema.parse, from the i-th entry of data on
RecordEntries(h, id, data, path, i, issues, result, calls) ==
  IF i > Len(data.entries)
  THEN IF Len(issues) > 0 THEN ValidationError(h, data, issues, calls)
       ELSE Ret(h, data, Obj(result), calls)
  ELSE LET key == data.entries[i].k
           r == Parse(h, h[id].valueSchema, data.entries[i].v,
                      FieldPath(path, key))
       IN
    IF r.kind = "return"
    THEN RecordEntries(r.heap, id, data, path, i + 1, issues,
                       Append(result, Entry(key, r.val)), calls \o r.calls)
    ELSE IF r.kind = "invalid"
    THEN RecordEntries(r.heap, id, data, path, i + 1, issues \o r.issues,
                       result, calls \o r.calls)
    ELSE Throw(r.heap, data, r.err, calls \o r.calls)

RecordParse(h, id, data, path) ==
  IF data.t # "object" THEN fail(h, id, data, path, "Expected object")
  ELSE RecordEntries(h, id, data, path, 1, <<>>, <<>>, <<>>)

\* UnionSchema.parse as it would be if it raised the members' issues when no
\* member matched
UnionMembersReportMembers(h, id, data, path, i, calls) ==
  IF i > Len(h[id].schemas)
  THEN ValidationError(h, data, ConcatIssues(calls), calls)
  ELSE LET r == Parse(h, h[id].schemas[i], data, path) IN
    IF r.kind = "return" THEN After(calls, r)
    ELSE UnionMembers(r.heap, id, data, path, i + 1, calls \o r.calls)

\* the member loop of UnionSchema.parse, from the i-th member on: the bare
\* catch {} swallows whatever the member raised
UnionMembers(h, id, data, path, i, calls) ==
  IF i > Len(h[id].schemas)
  THEN After(calls, fail(h, id, data, path,
                         "Value does not match any type in the union"))
  ELSE LET r == Parse(h, h[id].schemas[i], data, path) IN
    IF r.kind = "return" THEN After(calls, r)
    ELSE UnionMembers(r.heap, id, data, path, i + 1, calls \o r.calls)

UnionParse(h, id, data, path) == UnionMembers(h, id, data, path, 1, <<>>)

\* schema.parse(data, path), dispatched on the class of the schema
Parse(h, id, data, path) ==
  Called(id, data, path,
    CASE h[id].kind = "string" -> StringParse(h, id, data, path)
      [] h[id].kind = "number" -> NumberParse(h, id, data, path)
      [] h[id].kind = "coercedNumber" -> CoercedNumberParse(h, id, data, path)
      [] h[id].kind = "optional" -> OptionalParse(h, id, data, path)
      [] h[id].kind = "nullable" -> NullableParse(h, id, data, path)
      [] h[id].kind = "transform" -> TransformParse(h, id, data, path)
      [] h[id].kind = "array" -> ArrayParse(h, id, data, path)
      [] h[id].kind = "object" -> ObjectParse(h, id, data, path)
      [] h[id].kind = "record" -> RecordParse(h, id, data, path)
      [] h[id].kind = "union" -> UnionParse(h, id, data, path))

(***************************************************************************)
(* toJsonSchema(), one operator per schema class.  A document is a plain   *)
(* object; schema[key] = value replaces the value of a key the document    *)
(* has and appends the key otherwise.                                      *)
(***************************************************************************)
SetKey(entries, k, v) ==
  IF k \in Keys(entries)
  THEN [i \in 1..Len(entries) |->
          IF entries[i].k = k THEN Entry(k, v) ELSE entries[i]]
  ELSE Append(entries, Entry(k, v))

RECURSIVE ToJsonSchema(_, _)
RECURSIVE StringKeywords(_, _, _)
RECURSIVE NumberKeywords(_, _, _)
RECURSIVE ArrayKeywords(_, _, _)
RECURSIVE ObjectProperties(_, _, _)
RECURSIVE ObjectRequired(_, _, _)
RECURSIVE UnionDocs(_, _, _)

\* StringSchema.toJsonSchema as it would be if it exported where the last
\* search of the regex ended
StringKeywordsWithLastIndex(checks, i, schema) ==
  IF i > Len(checks) THEN schema
  ELSE StringKeywords(checks, i + 1,
         IF checks[i].kind = "min"
         THEN SetKey(schema, "minLength", Num(checks[i].value))
         ELSE IF checks[i].kind = "max"
         THEN SetKey(schema, "maxLength", Num(checks[i].value))
         ELSE SetKey(SetKey(schema, "pattern", Str(checks[i].value.source)),
                     "lastIndex", Num(checks[i].value.lastIndex)))

\* the loop of StringSchema.toJsonSchema, from check i on
StringKeywords(checks, i, schema) ==
  IF i > Len(checks) THEN schema
  ELSE StringKeywords(checks, i + 1,
         IF checks[i].kind = "min"
         THEN SetKey(schema, "minLength", Num(checks[i].value))
         ELSE IF checks[i].kind = "max"
         THEN SetKey(schema, "maxLength", Num(checks[i].value))
         ELSE SetKey(schema, "pattern", Str(checks[i].value.source)))

StringToJsonSchema(h, id) ==
  Obj(StringKeywords(h[id].checks, 1, <<Entry("type", Str("string"))>>))

\* the loop of NumberSchema.toJsonSchema, from check i on
NumberKeywords(checks, i, schema) ==
  IF i > Len(checks) THEN schema
  ELSE NumberKeywords(checks, i + 1,
         IF checks[i].kind = "min"
         THEN SetKey(schema, "minimum", Num(checks[i].value))
         ELSE IF checks[i].kind = "max"
         THEN SetKey(schema, "maximum", Num(checks[i].value))
         ELSE SetKey(schema, "type", Str("integer")))

NumberToJsonSchema(h, id) ==
  Obj(NumberKeywords(h[id].checks, 1, <<Entry("type", Str("number"))>>))

\* the loop of ArraySchema.toJsonSchema, from check i on
ArrayKeywords(checks, i, schema) ==
  IF i > Len(checks) THEN schema
  ELSE ArrayKeywords(checks, i + 1,
         IF checks[i].kind = "min"
         THEN SetKey(schema, "minItems", Num(checks[i].value))
         ELSE SetKey(schema, "maxItems", Num(checks[i].value)))

ArrayToJsonSchema(h, id) ==
  Obj(ArrayKeywords(h[id].checks, 1,
        <<Entry("type", Str("array")),
          Entry("items", ToJsonSchema(h, h[id].item))>>))

\* properties[key] = fieldSchema.toJsonSchema(), from the i-th declared key on
ObjectProperties(h, shape, i) ==
  IF i > Len(shape) THEN <<>>
  ELSE <<Entry(shape[i].key, ToJsonSchema(h, shape[i].schema))>>
       \o ObjectProperties(h, shape, i + 1)

\* an Optional occurs in the wrapper chain of schema id
RECURSIVE OptionalInChain(_, _)
OptionalInChain(h, id) ==
  \/ h[id].kind = "optional"
  \/ h[id].kind \in {"nullable", "transform"} /\ OptionalInChain(h, h[id].inner)

\* the required list as it would be if every field with an Optional anywhere
\* in its wrapper chain were left out
ObjectRequiredByChain(h, shape, i) ==
  IF i > Len(shape) THEN <<>>
  ELSE (IF ~OptionalInChain(h, shape[i].schema)
        THEN <<Str(shape[i].key)>> ELSE <<>>)
       \o ObjectRequired(h, shape, i + 1)

\* if (!(fieldSchema instanceof OptionalSchema)) required.push(key)
ObjectRequired(h, shape, i) ==
  IF i > Len(shape) THEN <<>>
  ELSE (IF h[shape[i].schema].kind # "optional"
        THEN <<Str(shape[i].key)>> ELSE <<>>)
       \o ObjectRequired(h, shape, i + 1)

ObjectToJsonSchema(h, id) ==
  LET properties == ObjectProperties(h, h[id].shape, 1)
      required == ObjectRequired(h, h[id].shape, 1)
      schema == <<Entry("type", Str("object")), Entry("properties", Obj(properties))>>
  IN Obj(IF Len(required) > 0
         THEN SetKey(schema, "required", Arr(required)) ELSE schema)

\* this.schemas.map((s) => s.toJsonSchema()), from the i-th member on
UnionDocs(h, schemas, i) ==
  IF i > Len(schemas) THEN <<>>
  ELSE <<ToJsonSchema(h, schemas[i])>> \o UnionDocs(h, schemas, i + 1)

\* schema.toJsonSchema(), dispatched on the class of the schema
ToJsonSchema(h, id) ==
  CASE h[id].kind = "string" -> StringToJsonSchema(h, id)
    [] h[id].kind \in {"number", "coercedNumber"} -> NumberToJsonSchema(h, id)
    [] h[id].kind \in {"optional", "transform"} -> ToJsonSchema(h, h[id].inner)
    [] h[id].kind = "nullable" ->
         Obj(<<Entry("oneOf", Arr(<<ToJsonSchema(h, h[id].inner),
                                    Obj(<<Entry("type", Str("null"))>>)>>))>>)
    [] h[id].kind = "array" -> ArrayToJsonSchema(h, id)
    [] h[id].kind = "object" -> ObjectToJsonSchema(h, id)
    [] h[id].kind = "record" ->
         Obj(<<Entry("type", Str("object")),
               Entry("additionalProperties", ToJsonSchema(h, h[id].valueSchema))>>)
    [] h[id].kind = "union" ->
         Obj(<<Entry("oneOf", Arr(UnionDocs(h, h[id].schemas, 1)))>>)

(***************************************************************************)
(* The values handed to parse: primitives, arrays and objects of           *)
(* primitives, and arrays and objects of those.                            *)
(***************************************************************************)
Strings == {"", "a", "ba", "  ", " 2 ", "0", "1.5"}
Atoms ==
  {Undef, Null, NaN, Num(1), NumHalf(1)} \cup {Str(s) : s \in Strings}
ElemAtoms == {Str("a"), Num(1)}

SeqsUpTo(S, lo, hi) == UNION {[1..n -> S] : n \in lo..hi}

\* objects over the keys a and b: none, a alone, and both in either order
ObjectsOf(S) ==
  {Obj(<<>>)}
  \cup {Obj(<<Entry("a", x)>>) : x \in S}
  \cup {Obj(<<Entry("a", x), Entry("b", y)>>) : <<x, y>> \in S \X S}
  \cup {Obj(<<Entry("b", y), Entry("a", x)>>) : <<x, y>> \in S \X S}

ArrayKids == {Arr(<<Num(1)>>), Arr(<<Str("a"), Num(1)>>)}
ObjectKids == {Obj(<<Entry("a", Num(1))>>), Obj(<<Entry("a", Str("a"))>>)}

Inputs ==
  Atoms
  \cup {Arr(items) : items \in SeqsUpTo(ElemAtoms, 0, MaxArrayLen)}
  \cup ObjectsOf(ElemAtoms)
  \cup {Arr(items) : items \in [1..MaxArrayLen -> ArrayKids]}
  \cup {Arr(items) : items \in [1..MaxArrayLen -> ObjectKids]}
  \cup {Obj(<<Entry("a", c)>>) : c \in ArrayKids \cup ObjectKids}

(***************************************************************************)
(* The arguments handed to the builders.                                   *)
(***************************************************************************)
Bounds == 0..MaxBound
Patterns == {RegExp("a", ""), RegExp("a", "g"), RegExp("^a$", "")}
Messages == {"custom"}
Fns == {"lengthUnlessOne"}

Ids(h) == 1..Len(h)

\* the shapes object({...}) is called with: {a: s} and {a: s, b: t}
Field(key, schema) == [key |-> key, schema |-> schema]
Shapes(h) ==
  {<<Field("a", i)>> : i \in Ids(h)}
  \cup {<<Field("a", i), Field("b", j)>> : <<i, j>> \in Ids(h) \X Ids(h)}

RECURSIVE SumChecks(_, _)
SumChecks(h, i) ==
  IF i > Len(h) THEN 0
  ELSE Len(h[i].checks) + Len(h[i]._customMessage) + SumChecks(h, i + 1)

\* what the builder calls so far left on the heap
Size(h) == Len(h) + SumChecks(h, 1)

(***************************************************************************)
(* State: the schema heap and the outcome of the latest call.              *)
(***************************************************************************)
NoCall ==
  [op |-> "none", id |-> 0, data |-> Undef, kind |-> "", val |-> Undef,
   issues |-> <<>>, err |-> "", calls |-> <<>>, after |-> Undef, pre |-> <<>>,
   via |-> "", ret |-> Undef, steps |-> <<>>, ctx |-> <<>>]

\* a builder returned the schema id
Built(id) == [NoCall EXCEPT !.op = "build", !.id = id]

\* parse(data) on schema id, started on heap h, ended as r
Parsed(h, id, data, r) ==
  [op |-> "parse", id |-> id, data |-> data, kind |-> r.kind, val |-> r.val,
   issues |-> r.issues, err |-> r.err, calls |-> r.calls[1].sub,
   after |-> r.data, pre |-> h, via |-> "", ret |-> Undef, steps |-> <<>>,
   ctx |-> <<>>]

\* new Node(segment) of the router's trie; a child is named by its index
\* among the nodes and 0 stands for null
RouterNode(segment) ==
  [segment |-> segment, children |-> <<>>, paramChild |-> 0,
   wildcardChild |-> 0, paramName |-> Null, handlers |-> <<>>, paths |-> <<>>]

\* new Router(): the root node
Router == <<RouterNode("")>>

\* new App(): the default error handler, an empty router, no middleware and
\* no routes
App ==
  [errorHandler |-> "default", router |-> Router, middlewares |-> <<>>,
   routeOpenAPI |-> <<>>, handlers |-> <<>>]

\* the underlying writer of a stream: whether it is writable, closed or
\* errored, how often close() and abort() were called on it, and the chunks
\* that reached the body
Writer == [state |-> "writable", closes |-> 0, aborts |-> 0, chunks |-> <<>>]

\* no ctx.stream(callback) yet; then its closed flag, its writer, and the
\* promise of its callback
NoStream ==
  [opened |-> FALSE, closed |-> FALSE, writer |-> Writer, callback |-> "none"]

Init ==
  /\ heap = <<>>
  /\ last = NoCall
  /\ app = App
  /\ stream = NoStream

\* new heap cell for a schema just constructed; limit bounds what the
\* builder calls of a behaviour leave on the heap
New(limit, node) ==
  /\ Size(heap) < limit
  /\ heap' = Append(heap, node)
  /\ last' = Built(Len(heap) + 1)
  /\ UNCHANGED <<app, stream>>

\* v.string()
NewString(limit) == New(limit, Node("string"))

\* v.number()
NewNumber(limit) == New(limit, Node("number"))

\* v.coerce.number()
NewCoercedNumber(limit) == New(limit, Node("coercedNumber"))

\* v.array(item)
NewArray(limit) ==
  \E i \in Ids(heap) : New(limit, [Node("array") EXCEPT !.item = i])

\* v.object(shape)
NewObject(limit) ==
  \E shape \in Shapes(heap) : New(limit, [Node("object") EXCEPT !.shape = shape])

\* v.record(valueSchema)
NewRecord(limit) ==
  \E i \in Ids(heap) : New(limit, [Node("record") EXCEPT !.valueSchema = i])

\* v.union(schemas)
NewUnion(limit) ==
  \E schemas \in SeqsUpTo(Ids(heap), 1, MaxMembers) :
    New(limit, [Node("union") EXCEPT !.schemas = schemas])

\* schema.optional()
optional(limit) ==
  \E i \in Ids(heap) : New(limit, [Node("optional") EXCEPT !.inner = i])

\* schema.nullable()
nullable(limit) ==
  \E i \in Ids(heap) : New(limit, [Node("nullable") EXCEPT !.inner = i])

\* schema.transform(fn)
transform(limit) ==
  \E i \in Ids(heap), fn \in Fns :
    New(limit, [Node("transform") EXCEPT !.inner = i, !.fn = fn])

\* a constraint builder as it would be if it returned a copy of the receiver
\* holding the new check
PushCopy(limit, id, check) ==
  /\ Size(heap) < limit
  /\ heap' = Append(heap, [heap[id] EXCEPT !.checks = Append(@, check)])
  /\ last' = Built(Len(heap) + 1)
  /\ UNCHANGED <<app, stream>>

\* this.checks.push(check); return this
Push(limit, id, check) ==
  /\ Size(heap) < limit
  /\ heap' = [heap EXCEPT ![id].checks = Append(@, check)]
  /\ last' = Built(id)
  /\ UNCHANGED <<app, stream>>

\* the classes with a checks list that takes min and max
Bounded == {"string", "number", "coercedNumber", "array"}

\* StringSchema.min, NumberSchema.min, ArraySchema.min
min(limit) ==
  \E id \in Ids(heap), n \in Bounds :
    /\ heap[id].kind \in Bounded
    /\ Push(limit, id, Check("min", n))

\* StringSchema.max, NumberSchema.max, ArraySchema.max
max(limit) ==
  \E id \in Ids(heap), n \in Bounds :
    /\ heap[id].kind \in Bounded
    /\ Push(limit, id, Check("max", n))

\* StringSchema.pattern
pattern(limit) ==
  \E id \in Ids(heap), re \in Patterns :
    /\ heap[id].kind = "string"
    /\ Push(limit, id, Check("pattern", re))

\* NumberSchema.integer
integer(limit) ==
  \E id \in Ids(heap) :
    /\ heap[id].kind \in {"number", "coercedNumber"}
    /\ Push(limit, id, Check("integer", 0))

\* Schema.message
message(limit) ==
  \E id \in Ids(heap), msg \in Messages :
    /\ Size(heap) < limit
    /\ heap' = [heap EXCEPT ![id]._customMessage = <<msg>>]
    /\ last' = Built(id)
    /\ UNCHANGED <<app, stream>>

\* node owns a reference to schema i
Owns(node, i) ==
  \/ node.inner = i \/ node.item = i \/ node.valueSchema = i
  \/ \E m \in 1..Len(node.schemas) : node.schemas[m] = i
  \/ \E m \in 1..Len(node.shape) : node.shape[m].schema = i

\* the schemas the application holds: those no other schema owns
Roots(h) == {i \in Ids(h) : \A j \in Ids(h) : ~Owns(h[j], i)}

\* A parse call reads the heap and its input only.  One made right after a
\* parse that left the heap as it found it would repeat, from the same heap, a
\* call that an earlier state already makes, and reach no state that call does
\* not reach; such repeats are not drawn again.
Repeats == last.op = "parse" /\ heap = last.pre

\* schema.parse(data) called by the application, path defaulting to ""
parse ==
  /\ ~Repeats
  /\ \E id \in Roots(heap), data \in Inputs :
       \E r \in {Parse(heap, id, data, "")} :
         /\ heap' = r.heap
         /\ last' = Parsed(heap, id, data, r)
         /\ UNCHANGED <<app, stream>>

\* toJsonSchema() on schema id, on heap h, returned doc
Described(h, id, doc) ==
  [NoCall EXCEPT !.op = "describe", !.id = id, !.kind = "return", !.val = doc,
                 !.pre = h]

\* schema.toJsonSchema() called by the application
toJsonSchema ==
  \E id \in Roots(heap) :
    /\ heap' = heap
    /\ last' = Described(heap, id, ToJsonSchema(heap, id))
    /\ UNCHANGED <<app, stream>>

(***************************************************************************)
(* The App.  A request reaches a route whose handler validates a part of   *)
(* the request with a schema and answers with ctx.json(validated); what    *)
(* the handler throws is answered by the error handler.                    *)
(***************************************************************************)
\* a request body that is not JSON: req.json() rejects with a SyntaxError
Malformed == [t |-> "malformed"]

\* what JSON.parse(JSON.stringify(v)) gives for a v that is not undefined:
\* NaN and the undefined items of an array become null, the undefined
\* properties of an object are dropped
RECURSIVE JsonValue(_)
RECURSIVE JsonEntries(_)
JsonEntries(entries) ==
  IF entries = <<>> THEN <<>>
  ELSE (IF Head(entries).v = Undef THEN <<>>
        ELSE <<Entry(Head(entries).k, JsonValue(Head(entries).v))>>)
       \o JsonEntries(Tail(entries))

JsonValue(v) ==
  CASE v.t = "array" ->
         Arr([i \in 1..Len(v.items) |->
                IF v.items[i] = Undef THEN Null ELSE JsonValue(v.items[i])])
    [] v.t = "object" -> Obj(JsonEntries(v.entries))
    [] v.t = "nan" -> Null
    [] OTHER -> v

\* new Response(JSON.stringify(data), {status}): the body as res.json() reads
\* it, undefined for the empty body that JSON.stringify(undefined) leaves
Response(status, data) ==
  [status |-> status, body |-> IF data = Undef THEN Undef ELSE JsonValue(data)]

\* ctx.json(data, status): an explicit status wins over the default 200
json(data, status) == Response(status, data)

\* err.issues as the value JSON.stringify is handed
IssueValues(issues) ==
  Arr([n \in 1..Len(issues) |->
         Obj(<<Entry("path", Str(issues[n].path)),
               Entry("message", Str(issues[n].message))>>)])

\* issues.map((i) => i.message).join(", ")
RECURSIVE JoinMessages(_)
JoinMessages(issues) ==
  IF issues = <<>> THEN ""
  ELSE IF Len(issues) = 1 THEN issues[1].message
  ELSE issues[1].message \o ", " \o JoinMessages(Tail(issues))

\* String(err) for what a handler threw
ErrString(r) ==
  IF r.kind = "invalid"
  THEN "ValidationError: Validation failed: " \o JoinMessages(r.issues)
  ELSE r.err

\* the error handler as it would be if it answered every error with 500
errorHandlerAlways500(r) ==
  json(Obj(<<Entry("error", Str("Internal Server Error"))>>), 500)

\* the default error handler of App, for what the handler raised (r)
errorHandler(r) ==
  IF r.kind = "invalid"
  THEN json(Obj(<<Entry("error", Str("Validation failed")),
                  Entry("issues", IssueValues(r.issues))>>), 400)
  ELSE json(Obj(<<Entry("error", Str("Internal Server Error"))>>), 500)

\* the handler the tests install with app.onError:
\*   (err, ctx) => ctx.json({ error: String(err) }, 500)
customErrorHandler(r) == json(Obj(<<Entry("error", Str(ErrString(r)))>>), 500)

\* the map as it would be if a repeated key took the value of its last pair
RECURSIVE QueryObjectLastWins(_, _)
QueryObjectLastWins(pairs, obj) ==
  IF pairs = <<>> THEN obj
  ELSE QueryObjectLastWins(Tail(pairs),
                           SetKey(obj, Head(pairs).k, Head(pairs).v))

\* for (const key of query.keys()) obj[key] = query.get(key): every key of
\* the query string, in the order of its first pair, with its first value
RECURSIVE QueryObject(_, _)
QueryObject(pairs, obj) ==
  IF pairs = <<>> THEN obj
  ELSE QueryObject(Tail(pairs),
                   IF Head(pairs).k \in Keys(obj) THEN obj
                   ELSE Append(obj, Head(pairs)))

\* the ways a handler validates: ctx.body(schema), ctx.validQuery(schema),
\* ctx.validParams(schema), and the body and query of a route's config
BodyVias == {"ctx.body", "route.body"}
QueryVias == {"ctx.validQuery", "route.query"}
ParamVias == {"ctx.validParams"}
Vias == BodyVias \cup QueryVias \cup ParamVias

\* request bodies: JSON texts, given as the values they parse to, and a text
\* that is not JSON
Bodies ==
  {Malformed, Null, Str("a"), Arr(<<Str("a"), Num(1)>>),
   Obj(<<Entry("a", Num(1))>>), Obj(<<Entry("a", Str("a")), Entry("b", Num(1))>>)}

\* query strings, as the pairs URLSearchParams holds
Queries ==
  {<<>>, <<Entry("a", Str(" 2 ")), Entry("a", Str("a"))>>,
   <<Entry("a", Str("a")), Entry("b", Str("0")), Entry("a", Str("ba"))>>}

\* route parameters
Params == {Obj(<<Entry("a", Str("a"))>>), Obj(<<Entry("a", Str("0"))>>)}

\* what a request carries for the way the handler validates
Carried(via) ==
  IF via \in BodyVias THEN Bodies
  ELSE IF via \in QueryVias THEN Queries
  ELSE Params

\* the config of a route: its body and query schemas, 0 for none
Config(body, query) == [body |-> body, query |-> query]

\* what a route's handler did: the steps it took, in order, what ctx.validQuery
\* and ctx.validBody were set to, and what it returned or threw (r)
Ran(steps, ctx, r) ==
  [steps |-> steps, ctx |-> ctx, kind |-> r.kind, val |-> r.val,
   issues |-> r.issues, err |-> r.err, calls |-> r.calls, heap |-> r.heap,
   data |-> r.data]

\* the user's handler of a route with a config: it answers with what the
\* context holds, ctx.json({validQuery, validBody})
userHandler(h, steps, ctx, calls) ==
  Ran(Append(steps, "handler"), ctx, Ret(h, Undef, Obj(ctx), calls))

\* the handler as it would be if registerRoute invoked it before validating
wrappedHandlerFirst(h, config, query, body) ==
  userHandler(h, <<>>, <<>>, <<>>)

\* the handler registerRoute wraps around the user's handler of a route with
\* a config, for a request with that query string and that body
wrapped(h, config, query, body) ==
  LET q == Parse(h, config.query, Obj(QueryObject(query, <<>>)), "")
      asked == config.query # 0
      queried == IF asked THEN <<"qSchema.parse">> ELSE <<>>
  IN IF asked /\ q.kind # "return"
     THEN Ran(queried, <<>>, q)
     ELSE
       LET h1 == IF asked THEN q.heap ELSE h
           ctx1 == IF asked THEN <<Entry("validQuery", q.val)>> ELSE <<>>
           calls1 == IF asked THEN q.calls ELSE <<>>
       IN IF config.body = 0 THEN userHandler(h1, queried, ctx1, calls1)
          ELSE IF body = Malformed
          THEN Ran(Append(queried, "req.json"), ctx1,
                   ValidationError(h1, body,
                                   <<Issue("", "Expected JSON body")>>, calls1))
          ELSE
            LET b == Parse(h1, config.body, body, "")
                read == queried \o <<"req.json", "bSchema.parse">>
            IN IF b.kind # "return"
               THEN Ran(read, ctx1, [b EXCEPT !.calls = calls1 \o @])
               ELSE userHandler(b.heap, read,
                                Append(ctx1, Entry("validBody", b.val)),
                                calls1 \o b.calls)

\* the validating part of the handler: what it returns or throws
Validate(h, id, via, carried) ==
  IF via = "ctx.body"
  THEN IF carried = Malformed THEN Throw(h, carried, "SyntaxError", <<>>)
       ELSE Parse(h, id, carried, "")
  ELSE IF via = "route.body"
  THEN [wrapped(h, Config(id, 0), <<>>, carried) EXCEPT !.data = carried]
  ELSE IF via = "route.query"
  THEN wrapped(h, Config(0, id), carried, Undef)
  ELSE IF via = "ctx.validQuery"
  THEN Parse(h, id, Obj(QueryObject(carried, <<>>)), "")
  ELSE Parse(h, id, carried, "")

\* handleRequest: the response of the handler, or of the error handler in
\* the catch clause when the handler threw
Respond(a, r) ==
  IF r.kind = "return" THEN json(r.val, 200)
  ELSE IF a.errorHandler = "default" THEN errorHandler(r)
  ELSE customErrorHandler(r)

\* a request handled by schema id through via, carrying carried, whose
\* handler ended as r and which was answered with response
Requested(h, id, via, carried, r, response) ==
  [op |-> "request", id |-> id, data |-> carried, kind |-> r.kind,
   val |-> response, issues |-> r.issues, err |-> r.err, calls |-> r.calls,
   after |-> r.data, pre |-> h, via |-> via, ret |-> r.val,
   steps |-> IF "steps" \in DOMAIN r THEN r.steps ELSE <<>>,
   ctx |-> IF "ctx" \in DOMAIN r THEN r.ctx ELSE <<>>]

\* app.onError(handler)
onError ==
  /\ app' = [app EXCEPT !.errorHandler = "custom"]
  /\ last' = [NoCall EXCEPT !.op = "onError"]
  /\ UNCHANGED <<heap, stream>>

\* the last call was a request that left every schema as it was: the same
\* requests would be answered in the same way again
Served == last.op = "request" /\ heap = last.pre

\* App.handleRequest for a request to a route that validates with schema id
handleRequest ==
  /\ ~Served
  /\ \E id \in Roots(heap), via \in Vias :
      \E carried \in Carried(via) :
        \E r \in {Validate(heap, id, via, carried)} :
          /\ heap' = r.heap
          /\ last' = Requested(heap, id, via, carried, r, Respond(app, r))
          /\ UNCHANGED <<app, stream>>

\* the bodies of the requests to a route with a config
RouteBodies ==
  {Malformed, Obj(<<Entry("a", Num(1))>>),
   Obj(<<Entry("a", Str("a")), Entry("b", Num(1))>>)}

\* a request to a route registered with a config of a body schema, a query
\* schema or both
Configs(h) ==
  {Config(b, q) : <<b, q>> \in (Roots(h) \cup {0}) \X (Roots(h) \cup {0})}
    \ {Config(0, 0)}

\* App.handleRequest for a request to a route registered with a config
handleConfigured ==
  /\ ~Served
  /\ \E config \in Configs(heap), query \in Queries, body \in RouteBodies :
       \E r \in {wrapped(heap, config, query, body)} :
         /\ heap' = r.heap
         /\ last' = [Requested(heap, 0, "route", body, r, Respond(app, r))
                       EXCEPT !.after = [config |-> config, query |-> query]]
         /\ UNCHANGED <<app, stream>>

(***************************************************************************)
(* Strings, as the String methods the router and the app use compute.     *)
(***************************************************************************)
\* s.indexOf(sub, from): the first index (from 0) at or after from where sub
\* occurs in s, -1 when there is none
IndexOf(s, sub, from) ==
  LET hits == {i \in from..(Len(s) - Len(sub)) : SubSeq(s, i + 1, i + Len(sub)) = sub}
  IN IF hits = {} THEN -1 ELSE CHOOSE i \in hits : \A j \in hits : i <= j

\* s.startsWith(prefix)
startsWith(s, prefix) ==
  Len(prefix) <= Len(s) /\ SubSeq(s, 1, Len(prefix)) = prefix

\* s.endsWith(suffix)
endsWith(s, suffix) ==
  Len(suffix) <= Len(s) /\ SubSeq(s, Len(s) - Len(suffix) + 1, Len(s)) = suffix

\* s.slice(from, to) for 0 <= from <= to <= s.length
slice(s, from, to) == SubSeq(s, from + 1, to)

\* s.split(sep)
RECURSIVE split(_, _)
split(s, sep) ==
  LET i == IndexOf(s, sep, 0)
  IN IF i = -1 THEN <<s>>
     ELSE <<slice(s, 0, i)>> \o split(slice(s, i + Len(sep), Len(s)), sep)

\* segs.join(sep)
RECURSIVE join(_, _)
join(segs, sep) ==
  IF segs = <<>> THEN ""
  ELSE IF Len(segs) = 1 THEN segs[1]
  ELSE segs[1] \o sep \o join(Tail(segs), sep)

Lower == "abcdefghijklmnopqrstuvwxyz"
Upper == "ABCDEFGHIJKLMNOPQRSTUVWXYZ"

\* s.toUpperCase()
RECURSIVE toUpperCase(_)
toUpperCase(s) ==
  IF s = "" THEN ""
  ELSE LET c == SubSeq(s, 1, 1)
           at == IndexOf(Lower, c, 0)
       IN (IF at = -1 THEN c ELSE SubSeq(Upper, at + 1, at + 1))
          \o toUpperCase(SubSeq(s, 2, Len(s)))

\* extractPathname(url): the path of a URL, without its query string
extractPathname(url) ==
  IF startsWith(url, "/")
  THEN LET q == IndexOf(url, "?", 0)
       IN IF q = -1 THEN url ELSE slice(url, 0, q)
  ELSE LET protoEnd == IndexOf(url, "://", 0) IN
       IF protoEnd = -1 THEN url
       ELSE LET pathStart == IndexOf(url, "/", protoEnd + 3) IN
            IF pathStart = -1 THEN "/"
            ELSE LET q == IndexOf(url, "?", pathStart)
                 IN IF q = -1 THEN slice(url, pathStart, Len(url))
                    ELSE slice(url, pathStart, q)

\* splitPath(path): the segments between the slashes that are not empty
splitPath(path) == SelectSeq(split(path, "/"), LAMBDA seg : seg # "")

(***************************************************************************)
(* The Router (src/router.ts): a trie of path segments.  The nodes are     *)
(* cells of a sequence whose first cell is the root; a child is named by   *)
(* its index and 0 stands for null.  A handler is named by the number of   *)
(* the route it was registered for.                                        *)
(***************************************************************************)
\* entries without the key k: delete obj[k]
Delete(entries, k) == SelectSeq(entries, LAMBDA e : e.k # k)

\* the loop of Router.add over segments, from segment i at node: the nodes
\* after it and the node it ends at
RECURSIVE Descend(_, _, _, _)
Descend(nodes, node, segments, i) ==
  IF i > Len(segments) THEN [nodes |-> nodes, node |-> node]
  ELSE
    LET seg == segments[i]
        fresh == Len(nodes) + 1
    IN IF startsWith(seg, ":")
       THEN IF nodes[node].paramChild = 0
            THEN Descend(Append([nodes EXCEPT ![node].paramChild = fresh],
                                [RouterNode(seg) EXCEPT
                                   !.paramName = slice(seg, 1, Len(seg))]),
                         fresh, segments, i + 1)
            ELSE Descend(nodes, nodes[node].paramChild, segments, i + 1)
       ELSE IF seg = "*"
       THEN IF nodes[node].wildcardChild = 0
            THEN [nodes |-> Append([nodes EXCEPT ![node].wildcardChild = fresh],
                                   RouterNode(seg)),
                  node |-> fresh]
            ELSE [nodes |-> nodes, node |-> nodes[node].wildcardChild]
       ELSE IF seg \in Keys(nodes[node].children)
            THEN Descend(nodes, Lookup(nodes[node].children, seg), segments, i + 1)
            ELSE Descend(Append([nodes EXCEPT ![node].children =
                                   Append(@, Entry(seg, fresh))],
                                RouterNode(seg)),
                         fresh, segments, i + 1)

\* Router.add(method, path, handler): the nodes after it
add(nodes, method, path, handler) ==
  LET d == Descend(nodes, 1, splitPath(path), 1)
  IN [d.nodes EXCEPT
        ![d.node].handlers = SetKey(@, toUpperCase(method), handler),
        ![d.node].paths = SetKey(@, toUpperCase(method), path)]

\* what matchNode returns, with the params object as it leaves it
NoMatch(params) ==
  [found |-> FALSE, handler |-> 0, routePath |-> "", params |-> params]
Matched(handler, routePath, params) ==
  [found |-> TRUE, handler |-> handler, routePath |-> routePath,
   params |-> params]

\* matchNode as it would be if it never came back from a static child that
\* has no handler for the rest of the path
RECURSIVE matchNodeNoBacktrack(_, _, _, _, _, _)
matchNodeNoBacktrack(nodes, node, segments, index, method, params) ==
  IF index = Len(segments)
  THEN IF method \in Keys(nodes[node].handlers)
       THEN Matched(Lookup(nodes[node].handlers, method),
                    Lookup(nodes[node].paths, method), params)
       ELSE NoMatch(params)
  ELSE
    LET seg == segments[index + 1]
        n == nodes[node]
    IN IF seg \in Keys(n.children)
       THEN matchNodeNoBacktrack(nodes, Lookup(n.children, seg), segments,
                                 index + 1, method, params)
       ELSE
         LET param ==
               IF n.paramChild # 0
               THEN matchNodeNoBacktrack(nodes, n.paramChild, segments,
                                         index + 1, method,
                                         SetKey(params,
                                                nodes[n.paramChild].paramName,
                                                Str(seg)))
               ELSE NoMatch(params)
         IN IF param.found THEN param
            ELSE IF /\ n.wildcardChild # 0
                    /\ method \in Keys(nodes[n.wildcardChild].handlers)
                 THEN Matched(Lookup(nodes[n.wildcardChild].handlers, method),
                              Lookup(nodes[n.wildcardChild].paths, method),
                              SetKey(params, "*",
                                     Str(join(SubSeq(segments, index + 1,
                                                     Len(segments)), "/"))))
                 ELSE NoMatch(params)

\* Router.matchNode(node, segments, index, method, params)
RECURSIVE matchNode(_, _, _, _, _, _)
matchNode(nodes, node, segments, index, method, params) ==
  IF index = Len(segments)
  THEN IF method \in Keys(nodes[node].handlers)
       THEN Matched(Lookup(nodes[node].handlers, method),
                  Lookup(nodes[node].paths, method), params)
       ELSE NoMatch(params)
  ELSE
    LET seg == segments[index + 1]
        n == nodes[node]
        static ==
          IF seg \in Keys(n.children)
          THEN matchNode(nodes, Lookup(n.children, seg), segments, index + 1,
                         method, params)
          ELSE NoMatch(params)
    IN IF static.found THEN static
       ELSE
         LET param ==
               IF n.paramChild # 0
               THEN LET name == nodes[n.paramChild].paramName
                        prevValue == Lookup(static.params, name)
                        result == matchNode(nodes, n.paramChild, segments,
                                            index + 1, method,
                                            SetKey(static.params, name, Str(seg)))
                    IN IF result.found THEN result
                       ELSE NoMatch(IF prevValue = Undef
                                    THEN Delete(result.params, name)
                                    ELSE SetKey(result.params, name, prevValue))
               ELSE NoMatch(static.params)
         IN IF param.found THEN param
            ELSE IF /\ n.wildcardChild # 0
                    /\ method \in Keys(nodes[n.wildcardChild].handlers)
                 THEN Matched(Lookup(nodes[n.wildcardChild].handlers, method),
                            Lookup(nodes[n.wildcardChild].paths, method),
                            SetKey(param.params, "*",
                                   Str(join(SubSeq(segments, index + 1,
                                                   Len(segments)), "/"))))
                 ELSE NoMatch(param.params)

\* Router.match(method, url): null (found = FALSE) or handler, params and
\* routePath
match(nodes, method, url) ==
  matchNode(nodes, 1, splitPath(extractPathname(url)), 0,
            toUpperCase(method), <<>>)


(***************************************************************************)
(* Routes.  registerRoute records the route and adds its handler to the    *)
(* router; a handler is the closure registerRoute and addRoute build: the  *)
(* prefix of the App (the root or a group) it was registered on, the       *)
(* schemas of its config (0 for none), its route-level middleware and what *)
(* the user's handler does.                                                *)
(***************************************************************************)
NoConfig == [body |-> 0, query |-> 0]

RouteHandler(prefix, config, middleware, handler) ==
  [prefix |-> prefix, config |-> config, middleware |-> middleware,
   handler |-> handler]

\* a user's handler that logs "handler" and answers ctx.text("ok")
TextHandler == [t |-> "text"]

\* App.registerRoute(method, path, [config, ...middleware, handler]) on the
\* App of that prefix, with the addRoute it ends with
registerRoute(a, prefix, method, path, config, middleware, handler) ==
  LET composed == Len(a.handlers) + 1
  IN [a EXCEPT
        !.routeOpenAPI = Append(@, [method |-> method, path |-> prefix \o path,
                                    bodySchema |-> config.body,
                                    querySchema |-> config.query]),
        !.handlers = Append(@, RouteHandler(prefix, config, middleware, handler)),
        !.router = add(@, method, prefix \o path, composed)]

\* the methods and paths routes are registered with, and the URLs matched
Methods == {"GET", "POST"}
RoutePaths ==
  {"/a", "/a/b", "/a/:id", "/:id", "/:id/b", "/:name/a", "/a/*", "/*"}
Urls ==
  {"/", "/a/", "/a/b", "/b/a", "/b/b", "/a/b/a?q=/b", "http://h/b?q"}

\* app.get(path, ...middleware, handler) and app.post(path, ...), on the
\* root App (prefix "") or on a group of it
get(limit, methods, prefixes, paths, middlewares) ==
  /\ Len(app.routeOpenAPI) < limit
  /\ \E method \in methods, prefix \in prefixes, path \in paths,
        middleware \in middlewares :
       app' = registerRoute(app, prefix, method, path, NoConfig, middleware,
                            TextHandler)
  /\ last' = [NoCall EXCEPT !.op = "route"]
  /\ UNCHANGED <<heap, stream>>

\* the result of Router.match(method, url) on the router of the app
Routed(method, url, m) ==
  [NoCall EXCEPT !.op = "match", !.via = method, !.data = Str(url),
                 !.kind = IF m.found THEN "return" ELSE "null",
                 !.ret = m]

\* router.match(method, url)
RouterMatch ==
  /\ last.op # "match"
  /\ \E method \in Methods, url \in Urls :
       last' = Routed(method, url, match(app.router, method, url))
  /\ UNCHANGED <<heap, app, stream>>

\* routes are registered and the router matches URLs
NextRouter == get(MaxRoutes, Methods, {""}, RoutePaths, {<<>>}) \/ RouterMatch

SpecRouter == Init /\ [][NextRouter]_vars

(***************************************************************************)
(* Middleware.  A middleware function either logs name-before, awaits      *)
(* next(), logs name-after and returns what next() resolved to, or logs    *)
(* name-before and returns a response of its own without calling next().   *)
(* App.middlewares holds the functions registered with use, each with the  *)
(* path it is scoped to (null for none); the middleware of a route is held *)
(* by the handler addRoute composed.                                       *)
(***************************************************************************)
Fn(name, callsNext) == [name |-> name, next |-> callsNext]
Middlewares == {Fn("a", TRUE), Fn("b", TRUE), Fn("c", FALSE)}

\* an entry of App.middlewares
ScopedMiddleware(path, fn) == [path |-> path, fn |-> fn]

\* the place of a route-level middleware, which has no path
RouteLevel == [t |-> "route"]

\* what a function logs: its name, where it is (before or after next()),
\* and the path it was registered with
Step(mw, at) == [name |-> mw.fn.name, at |-> at, path |-> mw.path]
HandlerStep == [name |-> "handler", at |-> "", path |-> Null]
NotFoundStep == [name |-> "notFound", at |-> "", path |-> Null]

\* what a chain of functions resolved to: the steps logged and the response,
\* or the steps logged and what was thrown
Done(steps, response) == [steps |-> steps, response |-> response, err |-> ""]
Thrown(steps, err) == [steps |-> steps, response |-> Undef, err |-> err]

\* next() as it would be if the functions were called in the reverse of
\* their order
RECURSIVE nextReversed(_, _)
nextReversed(mws, final) ==
  IF mws = <<>> THEN final
  ELSE LET mw == mws[Len(mws)]
       IN IF mw.fn.next
          THEN LET res == nextReversed(SubSeq(mws, 1, Len(mws) - 1), final)
               IN Done(<<Step(mw, "before")>> \o res.steps
                         \o <<Step(mw, "after")>>, res.response)
          ELSE Done(<<Step(mw, "before")>>,
                    json(Obj(<<Entry("error", Str("Unauthorized"))>>), 401))

\* the next() closure of runMiddlewares and of addRoute: the functions mws
\* from the first on, then final
RECURSIVE next(_, _)
next(mws, final) ==
  IF mws = <<>> THEN final
  ELSE LET mw == Head(mws)
       IN IF mw.fn.next
          THEN LET res == next(Tail(mws), final)
               IN IF res.err # ""
                  THEN Thrown(<<Step(mw, "before")>> \o res.steps, res.err)
                  ELSE Done(<<Step(mw, "before")>> \o res.steps
                              \o <<Step(mw, "after")>>, res.response)
          ELSE Done(<<Step(mw, "before")>>,
                    json(Obj(<<Entry("error", Str("Unauthorized"))>>), 401))

(***************************************************************************)
(* Static files (App.static).  The files that exist are fixed; a served    *)
(* file is the body of the response.                                       *)
(***************************************************************************)
Files ==
  {"/srv/public/a", "/srv/public/index.html", "/srv/public/sub/index.html",
   "/srv/public2/secret", "/srv/secret"}

\* new Response(file)
File(path) == [t |-> "file", path |-> path]

\* the segments of a path without its "." and ".." segments and its empty
\* segments, each ".." taking the segment before it
RECURSIVE Normalized(_, _)
Normalized(segs, acc) ==
  IF segs = <<>> THEN acc
  ELSE Normalized(Tail(segs),
                  IF Head(segs) \in {"", "."} THEN acc
                  ELSE IF Head(segs) = ".."
                  THEN SubSeq(acc, 1, Len(acc) - 1)
                  ELSE Append(acc, Head(segs)))

\* path.resolve(from, to) for an absolute from
resolve(from, to) ==
  "/" \o join(Normalized(split(IF startsWith(to, "/") THEN to
                                ELSE from \o "/" \o to, "/"), <<>>), "/")

\* the escapes the request paths here hold, and what they stand for
Escapes == <<Entry("%2F", "/"), Entry("%2f", "/"), Entry("%2E", "."), Entry("%2e", ".")>>

\* decodeURIComponent(s): the decoded string (ok), or a URIError for a "%"
\* that starts no escape
RECURSIVE decodeURIComponent(_)
decodeURIComponent(s) ==
  IF s = "" THEN [ok |-> TRUE, s |-> ""]
  ELSE IF SubSeq(s, 1, 1) # "%"
  THEN LET rest == decodeURIComponent(SubSeq(s, 2, Len(s)))
       IN [rest EXCEPT !.s = SubSeq(s, 1, 1) \o @]
  ELSE IF Len(s) >= 3 /\ SubSeq(s, 1, 3) \in Keys(Escapes)
  THEN LET rest == decodeURIComponent(SubSeq(s, 4, Len(s)))
       IN [rest EXCEPT !.s = Lookup(Escapes, SubSeq(s, 1, 3)) \o @]
  ELSE [ok |-> FALSE, s |-> ""]

\* the handler of App.static(urlPrefix, root), absRoot being resolve(root),
\* for a request without conditional headers
staticHandler(absRoot, params) ==
  LET raw == IF "*" \in Keys(params) THEN Lookup(params, "*").s ELSE ""
      filePath == decodeURIComponent(raw)
      resolved == IF filePath.s # "" THEN resolve(absRoot, filePath.s) ELSE absRoot
  IN IF ~filePath.ok THEN Thrown(<<HandlerStep>>, "URIError")
     ELSE IF ~startsWith(resolved, absRoot)
     THEN Done(<<HandlerStep>>, Response(403, Str("Forbidden")))
     ELSE IF resolved \in Files
     THEN Done(<<HandlerStep>>, [status |-> 200, body |-> File(resolved)])
     ELSE IF resolved \o "/index.html" \in Files
     THEN Done(<<HandlerStep>>,
               [status |-> 200, body |-> File(resolved \o "/index.html")])
     ELSE Done(<<HandlerStep>>,
               json(Obj(<<Entry("error", Str("Not Found"))>>), 404))

\* the handler addRoute composed of the middleware of a route and its
\* handler
composed(rh, params) ==
  next([n \in 1..Len(rh.middleware) |->
          ScopedMiddleware(RouteLevel, rh.middleware[n])],
       IF rh.handler.t = "static"
       THEN staticHandler(rh.handler.absRoot, params)
       ELSE Done(<<HandlerStep>>, Response(200, Str("ok"))))

\* App.runMiddlewares(ctx, final) for a request to that path
runMiddlewares(a, path, final) ==
  LET applicable ==
        SelectSeq(a.middlewares,
                  LAMBDA m : m.path = Null \/ startsWith(path, m.path.s))
  IN next(applicable, final)

\* App.handleRequest(req): the route matched, with the GET route for a HEAD
\* request that has none, and what the middleware and the handler, or the
\* notFoundHandler, resolved to
Handled(a, method, url) ==
  LET own == match(a.router, method, url)
      matched == IF ~own.found /\ method = "HEAD"
                 THEN match(a.router, "GET", url) ELSE own
      res == runMiddlewares(a, extractPathname(url),
                            IF matched.found
                            THEN composed(a.handlers[matched.handler],
                                          matched.params)
                            ELSE Done(<<NotFoundStep>>,
                                      json(Obj(<<Entry("error", Str("Not Found"))>>), 404)))
  IN [NoCall EXCEPT
        !.op = "fetch", !.via = method, !.data = Str(url),
        !.kind = IF matched.found THEN "return" ELSE "null",
        !.ret = matched, !.steps = res.steps, !.err = res.err,
        !.val = IF res.err # ""
                THEN Respond(a, Throw(<<>>, Undef, res.err, <<>>))
                ELSE IF method = "HEAD" /\ matched.found
                THEN [res.response EXCEPT !.body = Undef] ELSE res.response]

\* the Apps use and get are called on, by prefix: the root and its groups
\* app.group("/a") and app.group("/ab")
Prefixes == {"", "/a", "/ab"}

\* app.use(fn), group.use(fn) and app.use(path, fn)
use ==
  /\ Len(app.middlewares) < MaxMiddlewares
  /\ \E fn \in Middlewares :
       \/ \E prefix \in {"", "/a"} :
            app' = [app EXCEPT !.middlewares =
                      Append(@, ScopedMiddleware(IF prefix = "" THEN Null
                                                 ELSE Str(prefix), fn))]
       \/ \E prefix \in {""}, path \in {"/ab"} :
            app' = [app EXCEPT !.middlewares =
                      Append(@, ScopedMiddleware(Str(prefix \o path), fn))]
  /\ last' = [NoCall EXCEPT !.op = "use"]
  /\ UNCHANGED <<heap, stream>>

\* the middleware lists routes are registered with
RouteMiddlewares ==
  {<<>>, <<Fn("b", TRUE), Fn("a", TRUE)>>, <<Fn("c", FALSE), Fn("a", TRUE)>>}

\* the segments of a URL path as new Request(url) keeps them: a "." segment
\* is dropped and a ".." segment takes the segment before it, in their
\* escaped spellings too, and the last of them leaves an empty segment
DotSegments == {".", "%2e", "%2E"}
DotDotSegments ==
  {"..", ".%2e", ".%2E", "%2e.", "%2E.", "%2e%2e", "%2E%2E", "%2e%2E", "%2E%2e"}
RECURSIVE RemoveDots(_, _)
RemoveDots(segs, acc) ==
  IF segs = <<>> THEN acc
  ELSE LET seg == Head(segs)
           kept == IF seg \in DotDotSegments THEN SubSeq(acc, 1, Len(acc) - 1)
                   ELSE IF seg \in DotSegments THEN acc
                   ELSE Append(acc, seg)
       IN RemoveDots(Tail(segs),
                     IF seg \in DotSegments \cup DotDotSegments /\ Len(segs) = 1
                     THEN Append(kept, "") ELSE kept)

\* new Request(`http://localhost${input}`).url for a path without a query
Request(input) ==
  "http://localhost/"
    \o join(RemoveDots(Tail(split(input, "/")), <<>>), "/")

\* app.request(url, {method}), which leaves the App as it was
request(methods, urls) ==
  /\ last.op # "fetch"
  /\ \E method \in methods, url \in urls :
       last' = [Handled(app, method, Request(url)) EXCEPT !.data = Str(url)]
  /\ UNCHANGED <<heap, app, stream>>

\* middleware and routes are registered on an App and its groups, and
\* requests are served
NextMiddleware ==
  \/ use
  \/ get(MaxGroupRoutes, {"GET"}, Prefixes, {"/x"}, RouteMiddlewares)
  \/ request({"GET", "HEAD"}, {"/x", "/a/x", "/ab/x", "/a"})

SpecMiddleware == Init /\ [][NextMiddleware]_vars

\* the directories App.static is given, the URL prefixes it is mounted at,
\* and the paths requested under a prefix
RootDirs == {"/srv/public", "/srv/public/", "/srv/public/sub", "/srv"}
UrlPrefixes == {"/static", "/static/", "/s"}
Tails ==
  {"", "/", "/a", "/a/", "/b", "/sub", "/sub/index.html", "/a/../a",
   "/../secret", "/%2e%2e/secret", "/..%2Fsecret", "/..%2fpublic2%2Fsecret",
   "/%2Fsrv%2Fsecret", "/..%2F..%2Fsrv%2Fpublic%2Fa", "/..%2Fpublic", "/%zz",
   "/public/a", "/secret"}

\* app.static(urlPrefix, root)
static ==
  /\ app.handlers = <<>>
  /\ \E urlPrefix \in UrlPrefixes, root \in RootDirs :
       LET prefix == IF endsWith(urlPrefix, "/")
                     THEN slice(urlPrefix, 0, Len(urlPrefix) - 1) ELSE urlPrefix
           served == Len(app.handlers) + 1
       IN app' = [app EXCEPT
                    !.handlers =
                      Append(@, RouteHandler("", NoConfig, <<>>,
                                             [t |-> "static",
                                              absRoot |-> resolve("/", root)])),
                    !.router =
                      add(add(add(add(@, "GET", prefix \o "/*", served),
                                  "HEAD", prefix \o "/*", served),
                              "GET", prefix, served),
                          "HEAD", prefix, served)]
  /\ last' = [NoCall EXCEPT !.op = "static"]
  /\ UNCHANGED <<heap, stream>>

\* a directory is mounted and files are requested
NextStatic ==
  \/ static
  \/ request({"GET", "HEAD"},
             {prefix \o tail : <<prefix, tail>> \in {"/static", "/s"} \X Tails})

SpecStatic == Init /\ [][NextStatic]_vars

(***************************************************************************)
(* Streams (Context.stream).  ctx.stream(callback) starts the callback     *)
(* with a StreamWriter and returns the response; the writer stays in the   *)
(* hands of the callback and of whatever it handed it to, so write, close  *)
(* and abort may be called at any time.  The promise of the callback is    *)
(* pending, then fulfilled (it returned) or rejected (it threw), and then  *)
(* the reaction ctx.stream attached runs.                                  *)
(***************************************************************************)
Chunks == {"data", "ignored"}

\* writer.write(chunk): the chunk reaches the body of a writable stream, and
\* the call is rejected otherwise
writerWrite(w, chunk) ==
  IF w.state = "writable" THEN [w EXCEPT !.chunks = Append(@, chunk)] ELSE w
\* writer.close()
writerClose(w) ==
  [w EXCEPT !.closes = @ + 1,
            !.state = IF @ = "writable" THEN "closed" ELSE @]
\* writer.abort(reason)
writerAbort(w) ==
  [w EXCEPT !.aborts = @ + 1,
            !.state = IF @ = "writable" THEN "errored" ELSE @]

\* stream.write(chunk)
Written(st, chunk) ==
  IF st.closed THEN st ELSE [st EXCEPT !.writer = writerWrite(@, chunk)]

\* stream.close() as it would be without the closed flag
ClosedUnguarded(st) ==
  [st EXCEPT !.closed = TRUE, !.writer = writerClose(@)]

\* stream.close()
Closed(st) ==
  IF st.closed THEN st
  ELSE [st EXCEPT !.closed = TRUE, !.writer = writerClose(@)]

\* stream.abort(reason)
Aborted(st) ==
  IF st.closed THEN st
  ELSE [st EXCEPT !.closed = TRUE, !.writer = writerAbort(@)]

\* a call on the stream, and whether it found the stream closed
StreamCall(op, chunk) ==
  [NoCall EXCEPT !.op = op, !.data = Str(chunk),
                 !.kind = IF stream.closed THEN "noop" ELSE "done"]

\* ctx.stream(callback)
ctxStream ==
  /\ ~stream.opened
  /\ stream' = [NoStream EXCEPT !.opened = TRUE, !.callback = "pending"]
  /\ last' = [NoCall EXCEPT !.op = "stream"]
  /\ UNCHANGED <<heap, app>>

write ==
  /\ stream.opened
  /\ Written(stream, "data") # stream => Len(stream.writer.chunks) < MaxChunks
  /\ \E chunk \in Chunks :
       /\ stream' = Written(stream, chunk)
       /\ last' = StreamCall("write", chunk)
  /\ UNCHANGED <<heap, app>>

close ==
  /\ stream.opened
  /\ stream' = Closed(stream)
  /\ last' = StreamCall("close", "")
  /\ UNCHANGED <<heap, app>>

abort ==
  /\ stream.opened
  /\ stream' = Aborted(stream)
  /\ last' = StreamCall("abort", "")
  /\ UNCHANGED <<heap, app>>

\* the client goes away: the readable side is cancelled and the writer is
\* errored
cancel ==
  /\ stream.opened
  /\ stream.writer.state = "writable"
  /\ stream' = [stream EXCEPT !.writer.state = "errored"]
  /\ last' = [NoCall EXCEPT !.op = "cancel"]
  /\ UNCHANGED <<heap, app>>

\* the callback returns, or the promise it returned is fulfilled
returns ==
  /\ stream.callback = "pending"
  /\ stream' = [stream EXCEPT !.callback = "fulfilled"]
  /\ last' = [NoCall EXCEPT !.op = "returns"]
  /\ UNCHANGED <<heap, app>>

\* the callback throws, or the promise it returned is rejected
throws ==
  /\ stream.callback = "pending"
  /\ stream' = [stream EXCEPT !.callback = "rejected"]
  /\ last' = [NoCall EXCEPT !.op = "throws"]
  /\ UNCHANGED <<heap, app>>

\* .then(() => stream.close()): the auto-close; when the close() of an
\* errored writer rejects, .catch((err) => stream.abort(err)) follows
autoClose ==
  /\ stream.callback = "fulfilled"
  /\ stream' = [(IF ~stream.closed /\ stream.writer.state = "errored"
                 THEN Aborted(Closed(stream)) ELSE Closed(stream))
                  EXCEPT !.callback = "settled"]
  /\ last' = StreamCall("autoClose", "")
  /\ UNCHANGED <<heap, app>>

\* .catch((err) => stream.abort(err)) after the callback threw
autoAbort ==
  /\ stream.callback = "rejected"
  /\ stream' = [Aborted(stream) EXCEPT !.callback = "settled"]
  /\ last' = StreamCall("autoAbort", "")
  /\ UNCHANGED <<heap, app>>

\* a handler streams its response
NextStream ==
  \/ ctxStream \/ write \/ close \/ abort \/ cancel
  \/ returns \/ throws \/ autoClose \/ autoAbort

SpecStream == Init /\ [][NextStream]_vars

\* schemas are built, parsed with and described
Next ==
  \/ NewString(MaxSize) \/ NewNumber(MaxSize) \/ NewCoercedNumber(MaxSize)
  \/ NewArray(MaxSize) \/ NewObject(MaxSize) \/ NewRecord(MaxSize)
  \/ NewUnion(MaxSize)
  \/ optional(MaxSize) \/ nullable(MaxSize) \/ transform(MaxSize)
  \/ min(MaxSize) \/ max(MaxSize) \/ pattern(MaxSize) \/ integer(MaxSize)
  \/ message(MaxSize)
  \/ parse \/ toJsonSchema

Spec == Init /\ [][Next]_vars

\* schemas are built, larger ones than those parsed with, and described
NextDescribe ==
  \/ NewString(MaxDescribed) \/ NewNumber(MaxDescribed)
  \/ NewCoercedNumber(MaxDescribed)
  \/ NewArray(MaxDescribed) \/ NewObject(MaxDescribed)
  \/ NewRecord(MaxDescribed) \/ NewUnion(MaxDescribed)
  \/ optional(MaxDescribed) \/ nullable(MaxDescribed)
  \/ transform(MaxDescribed)
  \/ min(MaxDescribed) \/ max(MaxDescribed) \/ pattern(MaxDescribed)
  \/ integer(MaxDescribed) \/ message(MaxDescribed)
  \/ toJsonSchema

SpecDescribe == Init /\ [][NextDescribe]_vars

\* schemas are built and an App validates requests with them
NextApp ==
  \/ NewString(MaxSize) \/ NewNumber(MaxSize) \/ NewCoercedNumber(MaxSize)
  \/ NewArray(MaxSize) \/ NewObject(MaxSize) \/ NewRecord(MaxSize)
  \/ NewUnion(MaxSize)
  \/ optional(MaxSize) \/ nullable(MaxSize) \/ transform(MaxSize)
  \/ min(MaxSize) \/ max(MaxSize) \/ pattern(MaxSize) \/ integer(MaxSize)
  \/ message(MaxSize)
  \/ onError \/ handleRequest

SpecApp == Init /\ [][NextApp]_vars

\* schemas are built and an App validates the requests to the routes that
\* were registered with a config
NextRoute ==
  \/ NewString(MaxSize) \/ NewNumber(MaxSize) \/ NewCoercedNumber(MaxSize)
  \/ NewArray(MaxSize) \/ NewObject(MaxSize) \/ NewRecord(MaxSize)
  \/ NewUnion(MaxSize)
  \/ optional(MaxSize) \/ nullable(MaxSize) \/ transform(MaxSize)
  \/ min(MaxSize) \/ max(MaxSize) \/ pattern(MaxSize) \/ integer(MaxSize)
  \/ message(MaxSize)
  \/ handleConfigured

SpecRoute == Init /\ [][NextRoute]_vars

(***************************************************************************)
(* Vocabulary of the properties: the latest call, the schema it was made   *)
(* on as the call found it, and the calls made directly below it.          *)
(***************************************************************************)
IsParse == last.op = "parse"
Root == last.pre[last.id]
Children == last.calls

\* every length check attached to node accepts the length n
LengthOk(node, n) ==
  \A c \in 1..Len(node.checks) :
    /\ (node.checks[c].kind = "min" => n >= node.checks[c].value)
    /\ (node.checks[c].kind = "max" => n <= node.checks[c].value)

IndexPath(i) == "[" \o ToString(i) \o "]"

\* parse was called on an array schema with an array that passes its length checks
ArrayCase ==
  /\ IsParse
  /\ Root.kind = "array"
  /\ last.data.t = "array"
  /\ LengthOk(Root, Len(last.data.items))

\* C1: ArraySchema.parse calls item.parse on every index in order, also past
\* an index that raised a ValidationError; it raises one ValidationError whose
\* issues are the issues of the failing indices concatenated in index order,
\* and returns the parsed array only when no index produced an issue.  (Only
\* a foreign exception of an item ends the loop early: it escapes at once.)
C1_ArrayVisitsAllCollectsAll ==
  ArrayCase =>
    LET items == last.data.items IN
      /\ \A i \in 1..Len(Children) :
           /\ i <= Len(items)
           /\ Children[i].ev = "parse"
           /\ Children[i].id = Root.item
           /\ Children[i].data = items[i]
           /\ Children[i].path = IndexPath(i - 1)
           /\ (Children[i].kind = "throw" => i = Len(Children))
      /\ last.kind = "throw" <=>
           (Children # <<>> /\ Children[Len(Children)].kind = "throw")
      /\ last.kind # "throw" =>
           /\ Len(Children) = Len(items)
           /\ last.issues = ConcatIssues(Children)
           /\ last.kind = IF ConcatIssues(Children) = <<>> THEN "return" ELSE "invalid"
           /\ last.kind = "return" =>
                last.val = Arr([i \in 1..Len(items) |-> Children[i].val])

\* array(number()) on ["a", "a"]: two issues, "[0]" then "[1]"
C1_Witness ==
  /\ ArrayCase
  /\ last.pre[Root.item].kind = "number"
  /\ last.data = Arr(<<Str("a"), Str("a")>>)
  /\ last.kind = "invalid"
  /\ last.issues = <<Issue("[0]", "Expected number"), Issue("[1]", "Expected number")>>

\* the declared keys of an object schema, in declaration order
ShapeKeys(node) == [m \in 1..Len(node.shape) |-> node.shape[m].key]

\* parse was called on an object schema with a plain object
ObjectCase ==
  /\ IsParse
  /\ Root.kind = "object"
  /\ last.data.t = "object"

\* C2: ObjectSchema.parse parses every declared key in declaration order, also
\* past a key that raised a ValidationError, each with the input's value for
\* that key whatever the key order of the input, and raises one
\* ValidationError with the issues of all failing keys in declaration order;
\* an optional() field present with a wrong type fails like any other field.
C2_ObjectVisitsAllCollectsAll ==
  ObjectCase =>
    /\ \A m \in 1..Len(Children) :
         /\ m <= Len(Root.shape)
         /\ Children[m].ev = "parse"
         /\ Children[m].id = Root.shape[m].schema
         /\ Children[m].path = Root.shape[m].key
         /\ Children[m].data = Lookup(last.data.entries, Root.shape[m].key)
         /\ (Children[m].kind = "throw" => m = Len(Children))
         /\ (/\ last.pre[Root.shape[m].schema].kind = "optional"
             /\ Children[m].data # Undef
             => /\ Len(Children[m].sub) = 1
                /\ Children[m].kind = Children[m].sub[1].kind
                /\ Children[m].issues = Children[m].sub[1].issues)
    /\ last.kind = "throw" <=>
         (Children # <<>> /\ Children[Len(Children)].kind = "throw")
    /\ last.kind # "throw" =>
         /\ Len(Children) = Len(Root.shape)
         /\ last.issues = ConcatIssues(Children)
         /\ last.kind = IF ConcatIssues(Children) = <<>> THEN "return" ELSE "invalid"

\* object({a: string(), b: string().optional()}) on {b: 1, a: 1}: the issues
\* of a, then of b
C2_Witness ==
  /\ ObjectCase
  /\ ShapeKeys(Root) = <<"a", "b">>
  /\ last.pre[Root.shape[1].schema].kind = "string"
  /\ last.pre[Root.shape[2].schema].kind = "optional"
  /\ last.data = Obj(<<Entry("b", Num(1)), Entry("a", Num(1))>>)
  /\ last.kind = "invalid"
  /\ last.issues = <<Issue("a", "Expected string"), Issue("b", "Expected string")>>

\* the message of a schema's own type failure
OwnMessage(node, defaultMessage) ==
  IF node._customMessage # <<>> THEN node._customMessage[1] ELSE defaultMessage

UnionCase == IsParse /\ Root.kind = "union"

\* C3: UnionSchema.parse tries its members in declaration order, returns the
\* result of the first member that does not fail and tries no later member;
\* when every member fails it raises exactly one issue, at the union's own
\* path, with the union message (or the custom one), none of the members'.
C3_UnionFirstMatch ==
  UnionCase =>
    /\ Len(Children) >= 1 /\ Len(Children) <= Len(Root.schemas)
    /\ \A m \in 1..Len(Children) :
         /\ Children[m].ev = "parse"
         /\ Children[m].id = Root.schemas[m]
         /\ Children[m].data = last.data
         /\ Children[m].path = ""
         /\ (m < Len(Children) => Children[m].kind # "return")
    /\ LET lastTried == Children[Len(Children)] IN
         IF lastTried.kind = "return"
         THEN last.kind = "return" /\ last.val = lastTried.val
         ELSE /\ Len(Children) = Len(Root.schemas)
              /\ last.kind = "invalid"
              /\ last.issues =
                   <<Issue("", OwnMessage(Root,
                                 "Value does not match any type in the union"))>>

\* union([string(), number()]) on a number: the second member's result, after
\* the first failed; nothing of the first member's issue is reported
C3_Witness ==
  /\ UnionCase
  /\ Len(Root.schemas) = 2
  /\ Len(Children) = 2
  /\ Children[1].kind = "invalid"
  /\ last.kind = "return"
  /\ last.val = Num(1)

\* the exceptions thrown by the transform functions called in evs or below
RECURSIVE FnThrows(_)
FnThrows(evs) ==
  IF evs = <<>> THEN {}
  ELSE (IF Head(evs).ev = "fn" /\ Head(evs).kind = "throw"
        THEN {Head(evs).err} ELSE {})
       \cup FnThrows(Head(evs).sub) \cup FnThrows(Tail(evs))

\* C4: an exception that is not a ValidationError, thrown by a transform
\* function, propagates unchanged out of the outermost parse call, whatever
\* schema encloses the transform.
C4_ForeignExceptionPropagates ==
  IsParse =>
    \A err \in FnThrows(Children) : last.kind = "throw" /\ last.err = err

PrimitiveCase == IsParse /\ Root.kind \in {"string", "number"}

\* twice the value of a number, an integer
Twice(data) == 2 * data.n + (IF data.half THEN 1 ELSE 0)

\* the constraint check, as attached to a schema of class kind, rejects data
Rejects(kind, check, data) ==
  IF kind = "string"
  THEN \/ check.kind = "min" /\ Len(data.s) < check.value
       \/ check.kind = "max" /\ Len(data.s) > check.value
       \/ check.kind = "pattern" /\ ~RegExpTest(check.value, data.s).ok
  ELSE \/ check.kind = "min" /\ Twice(data) < 2 * check.value
       \/ check.kind = "max" /\ Twice(data) > 2 * check.value
       \/ check.kind = "integer" /\ Twice(data) % 2 = 1

\* the fixed message of a constraint violation
CheckMessage(kind, check) ==
  IF kind = "string"
  THEN CASE check.kind = "min" ->
              "String must be at least " \o ToString(check.value) \o " characters"
         [] check.kind = "max" ->
              "String must be at most " \o ToString(check.value) \o " characters"
         [] check.kind = "pattern" ->
              "String must match pattern /" \o check.value.source \o "/"
              \o check.value.flags
  ELSE CASE check.kind = "min" -> "Number must be at least " \o ToString(check.value)
         [] check.kind = "max" -> "Number must be at most " \o ToString(check.value)
         [] check.kind = "integer" -> "Number must be an integer"

\* C5: StringSchema.parse and NumberSchema.parse check the type first, then
\* the constraints in attachment order, stopping at the first that fails: the
\* error has exactly one issue, the type issue when the type is wrong and
\* otherwise the issue of the first failing constraint in attachment order.
C5_PrimitivesFailFast ==
  PrimitiveCase =>
    LET failing == {i \in 1..Len(Root.checks) :
                      Rejects(Root.kind, Root.checks[i], last.data)}
    IN IF last.data.t # Root.kind
       THEN /\ last.kind = "invalid"
            /\ last.issues = <<Issue("", OwnMessage(Root, "Expected " \o Root.kind))>>
       ELSE IF failing = {}
       THEN last.kind = "return" /\ last.val = last.data
       ELSE /\ last.kind = "invalid"
            /\ last.issues =
                 <<Issue("", CheckMessage(Root.kind, Root.checks[MinOf(failing)]))>>

\* string().min(2).max(0) on "a" violates both constraints: one issue, about
\* the minimum
C5_Witness ==
  /\ PrimitiveCase
  /\ Root.checks = <<Check("min", 2), Check("max", 0)>>
  /\ last.data = Str("a")
  /\ last.issues = <<Issue("", "String must be at least 2 characters")>>

(***************************************************************************)
(* Addresses.  A node of the input is addressed by the steps from the      *)
(* validation root to it: object or record keys and array indices.         *)
(***************************************************************************)
KeyStep(k) == [key |-> k, index |-> -1]
IndexStep(i) == [key |-> "", index |-> i]

RECURSIVE Address(_)
Address(steps) ==
  IF steps = <<>> THEN ""
  ELSE LET parent == Address(SubSeq(steps, 1, Len(steps) - 1))
           step == steps[Len(steps)]
       IN IF step.index >= 0 THEN parent \o "[" \o ToString(step.index) \o "]"
          ELSE IF parent = "" THEN step.key
          ELSE parent \o "." \o step.key

\* the parse calls among evs
ParseCalls(evs) == SelectSeq(evs, LAMBDA e : e.ev = "parse")

\* the step from the input node of call e (schema class kind) to the input
\* node of its m-th parse call: none below a wrapper or a union
StepsBelow(h, e, m) ==
  CASE h[e.id].kind = "array" -> <<IndexStep(m - 1)>>
    [] h[e.id].kind = "object" -> <<KeyStep(h[e.id].shape[m].key)>>
    [] h[e.id].kind = "record" -> <<KeyStep(e.data.entries[m].k)>>
    [] OTHER -> <<>>

\* call e raised issues of its own making, not those of the calls below it
Originates(h, e) ==
  \/ h[e.id].kind \in {"string", "number", "coercedNumber", "union"}
  \/ h[e.id].kind \in {"array", "object", "record"}
     /\ ConcatIssues(ParseCalls(e.sub)) = <<>>

\* in call e, on the input node with the address steps, and in every call
\* below it: the path is the address of the node, an issue raised there
\* carries that path, and the issues handed up are kept as they are
RECURSIVE AddressedFrom(_, _, _)
AddressedFrom(h, e, steps) ==
  /\ e.path = Address(steps)
  /\ e.kind = "invalid" =>
       IF Originates(h, e)
       THEN \A n \in 1..Len(e.issues) : e.issues[n].path = Address(steps)
       ELSE e.issues = ConcatIssues(ParseCalls(e.sub))
  /\ \A m \in 1..Len(ParseCalls(e.sub)) :
       AddressedFrom(h, ParseCalls(e.sub)[m], steps \o StepsBelow(h, e, m))

\* the outermost call, as an event
RootCall ==
  [ev |-> "parse", id |-> last.id, path |-> "", data |-> last.data,
   kind |-> last.kind, val |-> last.val, issues |-> last.issues,
   err |-> last.err, sub |-> last.calls]

\* C6: every issue's path is the address of the failing node from the
\* validation root: "" for the root, the bare key below a root object or
\* record, parent.key below a nested one, parent[i] for index i of an array.
C6_PathsAreAddresses ==
  IsParse => AddressedFrom(last.pre, RootCall, <<>>)

\* object({a: array(string())}) on {a: ["a", 1]}: the issue is at "a[1]"
C6_Witness ==
  /\ ObjectCase
  /\ last.data = Obj(<<Entry("a", Arr(<<Str("a"), Num(1)>>))>>)
  /\ last.issues = <<Issue("a[1]", "Expected string")>>

\* parse on an object schema returned
ObjectSuccess == ObjectCase /\ last.kind = "return"

DeclaredKeys(node) == {node.shape[m].key : m \in 1..Len(node.shape)}

\* C7: ObjectSchema.parse, on success, returns an object whose keys are
\* among the declared keys, so an undeclared key of the input is absent from
\* the output, and the input has the same keys and values after the call.
C7_ObjectStripsUnknownKeys ==
  ObjectSuccess =>
    /\ last.val.t = "object"
    /\ Keys(last.val.entries) \subseteq DeclaredKeys(Root)
    /\ \A k \in Keys(last.data.entries) \ DeclaredKeys(Root) :
         k \notin Keys(last.val.entries)
    /\ last.after = last.data

\* object({a: string()}) on {a: "a", b: 1} returns {a: "a"}
C7_Witness ==
  /\ ObjectSuccess
  /\ DeclaredKeys(Root) = {"a"}
  /\ last.data = Obj(<<Entry("a", Str("a")), Entry("b", Num(1))>>)
  /\ last.val = Obj(<<Entry("a", Str("a"))>>)

\* C8: when ObjectSchema.parse succeeds, a declared key whose field schema
\* returned undefined is no key of the output, and every other declared key
\* is a key of the output, once, holding the value its field schema returned.
C8_UndefinedFieldsOmitted ==
  ObjectSuccess =>
    /\ Len(Children) = Len(Root.shape)
    /\ \A m \in 1..Len(Root.shape) :
         LET key == Root.shape[m].key IN
           IF Children[m].val = Undef
           THEN key \notin Keys(last.val.entries)
           ELSE /\ key \in Keys(last.val.entries)
                /\ Lookup(last.val.entries, key) = Children[m].val
    /\ Cardinality(Keys(last.val.entries)) = Len(last.val.entries)

\* object({a: string(), b: string().optional()}) on {a: "a"} returns {a: "a"}
C8_Witness ==
  /\ ObjectSuccess
  /\ ShapeKeys(Root) = <<"a", "b">>
  /\ last.data = Obj(<<Entry("a", Str("a"))>>)
  /\ Children[2].val = Undef
  /\ last.val = Obj(<<Entry("a", Str("a"))>>)

\* every ValidationError raised in evs or below carries an issue
RECURSIVE NoEmptyError(_)
NoEmptyError(evs) ==
  \A n \in 1..Len(evs) :
    /\ evs[n].kind = "invalid" => Len(evs[n].issues) >= 1
    /\ NoEmptyError(evs[n].sub)

\* parse was called on a record schema with a plain object
RecordCase ==
  /\ IsParse
  /\ Root.kind = "record"
  /\ last.data.t = "object"

\* C9: every ValidationError raised by any schema's parse carries at least
\* one issue, and a container that visited its children raises only when it
\* collected at least one issue from them.
C9_ErrorsCarryIssues ==
  IsParse =>
    /\ NoEmptyError(<<RootCall>>)
    /\ (ArrayCase \/ ObjectCase \/ RecordCase) /\ last.kind = "invalid" =>
         ConcatIssues(Children) # <<>>

\* record(number()) on {a: "a", b: "a"} raises the two issues it collected
C9_Witness ==
  /\ RecordCase
  /\ last.kind = "invalid"
  /\ Len(last.issues) = 2
  /\ ConcatIssues(Children) = last.issues

\* C10: parse is a pure function of (schema, input): a parse call repeated
\* with an equal input on the same schema, no builder called in between,
\* returns an equal value or raises equal issues, and parse leaves the
\* schema's constraints and message as they were.
C10_ParseIsPure ==
  [][(/\ last.op = "parse"
      /\ last'.op = "parse"
      /\ last'.id = last.id
      /\ last'.data = last.data)
     => /\ last'.kind = last.kind
        /\ last'.val = last.val
        /\ last'.issues = last.issues
        /\ heap' = heap]_vars

(***************************************************************************)
(* The calls of a parse, at every depth.                                   *)
(***************************************************************************)
\* evs and all the calls below them, each before the calls it made
RECURSIVE Flatten(_)
Flatten(evs) ==
  IF evs = <<>> THEN <<>>
  ELSE <<Head(evs)>> \o Flatten(Head(evs).sub) \o Flatten(Tail(evs))

\* the outermost parse call and every parse call below it
AllParseCalls == ParseCalls(Flatten(<<RootCall>>))

\* the schema a call was made on, as the outermost call found it
NodeOf(e) == last.pre[e.id]

\* some match of re spans the whole of s
FullMatch(re, s) ==
  \E p \in MatchesFrom(re, s, 0) : p = 0 /\ Len(Literal(re)) = Len(s)

StringCase == IsParse /\ Root.kind = "string" /\ last.data.t = "string"

\* C11: a StringSchema with pattern(regex) accepts a string only when the
\* whole string matches the regex: a string that no match of the regex spans
\* is rejected, with the pattern issue when the pattern is the only check.
C11_PatternFullMatch ==
  StringCase =>
    \A i \in 1..Len(Root.checks) :
      (/\ Root.checks[i].kind = "pattern"
       /\ ~FullMatch(Root.checks[i].value, last.data.s))
      => /\ last.kind = "invalid"
         /\ Len(Root.checks) = 1 =>
              last.issues = <<Issue("", CheckMessage("string", Root.checks[i]))>>

\* the fixed message of a length check of an array
LengthMessage(check) ==
  IF check.kind = "min"
  THEN "Array must have at least " \o ToString(check.value) \o " items"
  ELSE "Array must have at most " \o ToString(check.value) \o " items"

\* the input of call e has the runtime type the class of its schema expects
TypeOk(e) ==
  CASE NodeOf(e).kind = "string" -> e.data.t = "string"
    [] NodeOf(e).kind = "number" -> e.data.t = "number"
    [] NodeOf(e).kind = "coercedNumber" ->
         \/ e.data.t = "number"
         \/ e.data.t = "string" /\ trim(e.data.s) # "" /\ Number(e.data.s) # NaN
    [] NodeOf(e).kind = "array" -> e.data.t = "array"
    [] NodeOf(e).kind \in {"object", "record"} -> e.data.t = "object"
    [] OTHER -> TRUE

\* the message of the type failure of a schema of class kind
TypeMessage(kind) ==
  CASE kind = "string" -> "Expected string"
    [] kind \in {"number", "coercedNumber"} -> "Expected number"
    [] kind = "array" -> "Expected array"
    [] kind \in {"object", "record"} -> "Expected object"

\* call e, which raised on a value of the right type, reports the fixed
\* message of one of its own constraints, or hands up its children's issues
ConstraintOrChildren(e) ==
  CASE NodeOf(e).kind \in {"string", "number", "coercedNumber"} ->
         \E i \in 1..Len(NodeOf(e).checks) :
           e.issues = <<Issue(e.path, CheckMessage(NodeOf(e).kind, NodeOf(e).checks[i]))>>
    [] NodeOf(e).kind = "array" ->
         IF LengthOk(NodeOf(e), Len(e.data.items))
         THEN e.issues = ConcatIssues(e.sub)
         ELSE \E i \in 1..Len(NodeOf(e).checks) :
                e.issues = <<Issue(e.path, LengthMessage(NodeOf(e).checks[i]))>>
    [] NodeOf(e).kind \in {"object", "record"} -> e.issues = ConcatIssues(e.sub)

MessageKinds ==
  {"string", "number", "coercedNumber", "array", "object", "record"}

Delegates(e) ==
  /\ Len(e.sub) = 1
  /\ e.sub[1].ev = "parse"
  /\ e.sub[1].id = NodeOf(e).inner
  /\ e.sub[1].data = e.data
  /\ e.sub[1].path = e.path
  /\ e.kind = e.sub[1].kind
  /\ e.val = e.sub[1].val
  /\ e.issues = e.sub[1].issues
  /\ e.err = e.sub[1].err

\* call e returned skip without calling anything
ShortCircuits(e, skip) == e.sub = <<>> /\ e.kind = "return" /\ e.val = skip

\* C13: OptionalSchema.parse returns undefined without calling the inner
\* schema exactly when the input is undefined, and otherwise (null and
\* wrong-typed values included) returns or raises what inner.parse does;
\* NullableSchema.parse does the same for null, so undefined goes to inner.
C13_OptionalNullableDelegate ==
  IsParse =>
    \A n \in 1..Len(AllParseCalls) :
      LET e == AllParseCalls[n] IN
        /\ NodeOf(e).kind = "optional" =>
             IF e.data = Undef THEN ShortCircuits(e, Undef) ELSE Delegates(e)
        /\ NodeOf(e).kind = "nullable" =>
             IF e.data = Null THEN ShortCircuits(e, Null) ELSE Delegates(e)

\* string().nullable() on undefined: the inner schema is called and fails
C13_Witness ==
  /\ IsParse
  /\ Root.kind = "nullable"
  /\ last.data = Undef
  /\ Len(Children) = 1
  /\ Children[1].data = Undef
  /\ last.issues = <<Issue("", "Expected string")>>

\* C14: TransformSchema.parse calls the inner schema's parse first; fn is
\* called once, after it, with the value the inner parse returned, and only
\* when it returned; when the inner parse raised, fn is not called and what
\* was raised leaves the transform with the same issues and paths.
C14_TransformAfterInner ==
  IsParse =>
    \A n \in 1..Len(AllParseCalls) :
      LET e == AllParseCalls[n] IN
        NodeOf(e).kind = "transform" =>
          /\ Len(e.sub) >= 1
          /\ e.sub[1].ev = "parse"
          /\ e.sub[1].id = NodeOf(e).inner
          /\ e.sub[1].data = e.data
          /\ e.sub[1].path = e.path
          /\ IF e.sub[1].kind = "return"
             THEN /\ Len(e.sub) = 2
                  /\ e.sub[2].ev = "fn"
                  /\ e.sub[2].data = e.sub[1].val
                  /\ e.kind = e.sub[2].kind
                  /\ e.val = e.sub[2].val
                  /\ e.err = e.sub[2].err
             ELSE /\ Len(e.sub) = 1
                  /\ e.kind = e.sub[1].kind
                  /\ e.issues = e.sub[1].issues
                  /\ e.err = e.sub[1].err

\* string().transform(f).transform(f) on "ba": the outer f is handed the 2
\* the inner transform returned, not the input
C14_Witness ==
  /\ IsParse
  /\ Root.kind = "transform"
  /\ last.pre[Root.inner].kind = "transform"
  /\ last.data = Str("ba")
  /\ Len(Children) = 2
  /\ Children[1].val = Num(2)
  /\ Children[2].ev = "fn"
  /\ Children[2].data = Num(2)
  /\ last.kind = "return"

\* C19: ArraySchema.parse applies its length checks before it visits any
\* item: when a length check fails no item is parsed, and the error has
\* exactly one issue, at the array's own path, about the length.
C19_LengthChecksBeforeItems ==
  IsParse =>
    \A n \in 1..Len(AllParseCalls) :
      LET e == AllParseCalls[n] IN
        (/\ NodeOf(e).kind = "array"
         /\ e.data.t = "array"
         /\ ~LengthOk(NodeOf(e), Len(e.data.items)))
        => /\ e.sub = <<>>
           /\ e.kind = "invalid"
           /\ Len(e.issues) = 1
           /\ e.issues[1].path = e.path
           /\ \E i \in 1..Len(NodeOf(e).checks) :
                e.issues[1].message = LengthMessage(NodeOf(e).checks[i])

\* array(number()).max(1) on ["a", "a"]: one issue, about the length
C19_Witness ==
  /\ IsParse
  /\ Root.kind = "array"
  /\ last.pre[Root.item].kind = "number"
  /\ last.data = Arr(<<Str("a"), Str("a")>>)
  /\ last.issues = <<Issue("", "Array must have at most 1 items")>>
  /\ Children = <<>>

CoercedCase == IsParse /\ Root.kind = "coercedNumber"

\* the number a coerced number schema checks: the input when it is a number,
\* the conversion of the trimmed input when it is a string that is not
\* blank, and none (NaN) otherwise
Converted(data) ==
  IF data.t = "number" THEN data
  ELSE IF data.t = "string" /\ trim(data.s) # "" THEN Number(trim(data.s))
  ELSE NaN

\* C15: CoercedNumberSchema.parse takes a number as it is; it trims a string,
\* fails when nothing is left, converts it and fails when the result is NaN;
\* any other input fails; min, max and integer then run on the converted
\* number ("" and "  " fail, " 2 " gives 2, min(1) on "0" fails, integer() on
\* "1.5" fails).
C15_CoercedNumber ==
  CoercedCase =>
    LET num == Converted(last.data)
        failing == {i \in 1..Len(Root.checks) : Rejects("number", Root.checks[i], num)}
    IN /\ IF num = NaN
          THEN /\ last.kind = "invalid"
               /\ last.issues = <<Issue("", OwnMessage(Root, "Expected number"))>>
          ELSE IF failing = {}
          THEN last.kind = "return" /\ last.val = num
          ELSE /\ last.kind = "invalid"
               /\ last.issues =
                    <<Issue("", CheckMessage("number", Root.checks[MinOf(failing)]))>>
       /\ (last.data.t = "number" /\ last.kind = "return") => last.val = last.data
       /\ last.data \in {Str(""), Str("  ")} => last.kind = "invalid"
       /\ (last.data = Str(" 2 ") /\ Root.checks = <<>>) => last.val = Num(2)
       /\ (last.data = Str("0") /\ Root.checks = <<Check("min", 1)>>) =>
            last.kind = "invalid"
       /\ (last.data = Str("1.5") /\ Root.checks = <<Check("integer", 0)>>) =>
            last.kind = "invalid"
       /\ last.data.t \notin {"number", "string"} => last.kind = "invalid"

\* coerce.number().min(1) on "0": converted to 0, rejected by the minimum
C15_Witness ==
  /\ CoercedCase
  /\ Root.checks = <<Check("min", 1)>>
  /\ last.data = Str("0")
  /\ last.issues = <<Issue("", "Number must be at least 1")>>

(***************************************************************************)
(* Documents.                                                              *)
(***************************************************************************)
IsDescribe == last.op = "describe"

\* toJsonSchema was called on an object schema
ObjectDescribed == IsDescribe /\ Root.kind = "object"

\* the required list of a document, empty when it has none
RequiredList(doc) ==
  IF "required" \in Keys(doc.entries)
  THEN Lookup(doc.entries, "required").items ELSE <<>>

KeysOf(fields) == [m \in 1..Len(fields) |-> Str(fields[m].key)]

\* the declared fields whose schema has an Optional nowhere in its wrapper chain
NoOptionalInChain ==
  SelectSeq(Root.shape, LAMBDA f : ~OptionalInChain(last.pre, f.schema))

\* the declared fields whose schema is not itself an Optional
NotOptionalOnTop ==
  SelectSeq(Root.shape, LAMBDA f : last.pre[f.schema].kind # "optional")

\* C16: an object field is left out of the exporter's required list exactly
\* when an Optional occurs anywhere in its wrapper chain, as in
\* string().optional().nullable() or string().optional().transform(f).
C16_RequiredByWrapperChain ==
  ObjectDescribed => RequiredList(last.val) = KeysOf(NoOptionalInChain)

\* C17: ObjectSchema.toJsonSchema returns a document of type "object" whose
\* properties hold, per declared key, the document of the field schema, and
\* whose required list holds, in declaration order, exactly the declared keys
\* whose field schema is not an Optional at the top of its wrapper chain (the
\* document has no required key when the list is empty).
C17_ObjectDocument ==
  ObjectDescribed =>
    /\ Keys(last.val.entries) \subseteq {"type", "properties", "required"}
    /\ Lookup(last.val.entries, "type") = Str("object")
    /\ Lookup(last.val.entries, "properties") =
         Obj([m \in 1..Len(Root.shape) |->
                Entry(Root.shape[m].key,
                      ToJsonSchema(last.pre, Root.shape[m].schema))])
    /\ RequiredList(last.val) = KeysOf(NotOptionalOnTop)
    /\ ("required" \in Keys(last.val.entries)) = (NotOptionalOnTop # <<>>)

\* object({a: string().optional().nullable()}): the field is a Nullable on
\* top, and a is required
C17_Witness ==
  /\ ObjectDescribed
  /\ ShapeKeys(Root) = <<"a">>
  /\ last.pre[Root.shape[1].schema].kind = "nullable"
  /\ OptionalInChain(last.pre, Root.shape[1].schema)
  /\ RequiredList(last.val) = <<Str("a")>>

\* C18: toJsonSchema reads schema metadata only: it returns, never raises
\* and leaves every schema as it was; no parse call, succeeding or failing,
\* and no toJsonSchema call changes the document of any schema, so a call
\* repeated on the same schema returns an equal document.
C18_DescribeReadsMetadataOnly ==
  [][/\ last'.op = "describe" =>
          /\ heap' = heap
          /\ last'.kind = "return"
          /\ last'.val = ToJsonSchema(heap', last'.id)
     /\ last'.op \in {"parse", "describe"} =>
          \A id \in Ids(heap) : ToJsonSchema(heap', id) = ToJsonSchema(heap, id)
     /\ (last.op = "describe" /\ last'.op = "describe" /\ last'.id = last.id) =>
          last'.val = last.val]_vars

\* string().pattern(/a/g) described after a parse of "a" moved the regex's
\* lastIndex: the document is that of the fresh schema
C18_Witness ==
  /\ IsDescribe
  /\ Root.kind = "string"
  /\ Root.checks = <<Check("pattern", [RegExp("a", "g") EXCEPT !.lastIndex = 1])>>
  /\ last.val = Obj(<<Entry("type", Str("string")), Entry("pattern", Str("a"))>>)

(***************************************************************************)
(* Requests answered by the default error handler.                         *)
(***************************************************************************)
\* a request was handled while no custom error handler was installed
DefaultHandled == last.op = "request" /\ app.errorHandler = "default"

\* the JSON body {error: "Validation failed", issues} for the issues of an
\* error: one {path, message} pair per issue, in the order of the issues
ValidationFailedBody(issues) ==
  Obj(<<Entry("error", Str("Validation failed")),
        Entry("issues",
              Arr([n \in 1..Len(issues) |->
                     Obj(<<Entry("path", Str(issues[n].path)),
                           Entry("message", Str(issues[n].message))>>)]))>>)

\* C20: when the handling of a request raises a ValidationError (from
\* ctx.body(schema), ctx.validQuery, ctx.validParams, or the body or query
\* config of a route) and no custom onError handler is installed, the
\* response has status 400 and the JSON body {error: "Validation failed",
\* issues}, issues being the error's {path, message} pairs verbatim and in
\* order; any other thrown error is answered with status 500.
C20_ValidationErrorIs400 ==
  DefaultHandled =>
    /\ last.kind = "invalid" =>
         /\ last.val.status = 400
         /\ last.val.body = ValidationFailedBody(last.issues)
    /\ last.kind = "throw" => last.val.status = 500

\* the request of the tests: ctx.body(v.object({a: v.string()})) on the body
\* {"a": 1} is answered 400 with the one issue at "a"
C20_Witness ==
  /\ DefaultHandled
  /\ last.via = "ctx.body"
  /\ last.pre[last.id].kind = "object"
  /\ Len(last.pre[last.id].shape) = 1
  /\ last.pre[last.pre[last.id].shape[1].schema].kind = "string"
  /\ last.data = Obj(<<Entry("a", Num(1))>>)
  /\ last.kind = "invalid"
  /\ last.issues = <<Issue("a", "Expected string")>>
  /\ last.val = [status |-> 400,
                 body |-> Obj(<<Entry("error", Str("Validation failed")),
                                Entry("issues",
                                      Arr(<<Obj(<<Entry("path", Str("a")),
                                                  Entry("message", Str("Expected string"))>>)>>))>>)]

(***************************************************************************)
(* Query strings.                                                          *)
(***************************************************************************)
\* a request whose handler called ctx.validQuery(schema)
ValidQueryCase == last.op = "request" /\ last.via = "ctx.validQuery"

\* the first pair of the query string pairs that has the key k
FirstPair(pairs, k) ==
  pairs[CHOOSE i \in 1..Len(pairs) :
          /\ pairs[i].k = k
          /\ \A j \in 1..(i - 1) : pairs[j].k # k]

\* C21: ctx.validQuery(schema) builds a string-keyed map of the query
\* string, in which a key that occurs several times maps to its first
\* value, and returns what schema.parse gives for that map.
C21_ValidQueryFirstValueWins ==
  ValidQueryCase =>
    /\ Len(last.calls) = 1
    /\ LET call == last.calls[1]
           map == call.data
       IN /\ call.id = last.id
          /\ map.t = "object"
          /\ \A i, j \in 1..Len(map.entries) :
               map.entries[i].k = map.entries[j].k => i = j
          /\ Keys(map.entries) = {last.data[i].k : i \in 1..Len(last.data)}
          /\ \A i \in 1..Len(map.entries) :
               /\ map.entries[i].v.t = "string"
               /\ map.entries[i].v = FirstPair(last.data, map.entries[i].k).v
          /\ last.kind = call.kind
          /\ last.ret = call.val
          /\ last.issues = call.issues
          /\ last.err = call.err

\* "?a=a&b=0&a=ba" validated with object({a: string()}) gives {a: "a"}
C21_Witness ==
  /\ ValidQueryCase
  /\ last.data = <<Entry("a", Str("a")), Entry("b", Str("0")), Entry("a", Str("ba"))>>
  /\ last.pre[last.id].kind = "object"
  /\ Len(last.pre[last.id].shape) = 1
  /\ last.pre[last.pre[last.id].shape[1].schema].kind = "string"
  /\ last.kind = "return"
  /\ last.ret = Obj(<<Entry("a", Str("a"))>>)

(***************************************************************************)
(* Routing.                                                                *)
(***************************************************************************)
\* the router was asked to match a URL
IsMatch == last.op = "match"
\* the segments of the path that was matched, and the routes registered for
\* the method that was asked for
Asked == splitPath(extractPathname(last.data.s))
Registered ==
  {i \in 1..Len(app.routeOpenAPI) : app.routeOpenAPI[i].method = last.via}
PatternOf(i) == splitPath(app.routeOpenAPI[i].path)

\* kinds of pat segments, the preferred first
SegKind(seg) ==
  IF seg = "*" THEN 2 ELSE IF SubSeq(seg, 1, 1) = ":" THEN 1 ELSE 0

\* a pat matches a path: a static segment matches itself, a named
\* parameter any one segment, and a wildcard the whole rest of a path that
\* has a rest
RECURSIVE PatternMatches(_, _)
PatternMatches(pat, segs) ==
  IF pat = <<>> THEN segs = <<>>
  ELSE IF segs = <<>> THEN FALSE
  ELSE IF SegKind(Head(pat)) = 2 THEN TRUE
  ELSE IF SegKind(Head(pat)) = 1 THEN PatternMatches(Tail(pat), Tail(segs))
  ELSE Head(pat) = Head(segs) /\ PatternMatches(Tail(pat), Tail(segs))

Candidates == {i \in Registered : PatternMatches(PatternOf(i), Asked)}

\* pat p is preferred to pat q, or as good: at the leftmost segment
\* where their kinds differ, the kind of p comes first
Preferred(p, q) ==
  \A n \in 1..Len(p) :
    (n <= Len(q) /\ \A m \in 1..(n - 1) : SegKind(p[m]) = SegKind(q[m]))
      => SegKind(p[n]) <= SegKind(q[n])

\* C24: Router.match returns, among the routes registered for the method
\* whose pat matches the path, the one preferred segment by segment from
\* the left, static over named parameter over wildcard, also when the
\* preferred branch of the trie has no handler for the rest of the path; it
\* returns null only when no registered route of the method matches.
C24_MatchPrefersStaticParamWildcard ==
  IsMatch =>
    /\ last.kind = "null" <=> Candidates = {}
    /\ last.kind = "return" =>
         /\ last.ret.handler \in Candidates
         /\ last.ret.routePath = app.routeOpenAPI[last.ret.handler].path
         /\ \A j \in Candidates :
              /\ Preferred(PatternOf(last.ret.handler), PatternOf(j))
              /\ Preferred(PatternOf(j), PatternOf(last.ret.handler))
                   => j <= last.ret.handler

\* "/a/b/a" with the routes /a/b, /:id/b and /a/*: the static child a, then
\* b, has no handler for the rest, nor has the parameter child, and the
\* wildcard under a is returned
C24_Witness ==
  /\ IsMatch
  /\ last.data = Str("/a/b/a?q=/b")
  /\ {app.routeOpenAPI[i].path : i \in Registered} = {"/a/b", "/:id/b", "/a/*"}
  /\ last.kind = "return"
  /\ last.ret.routePath = "/a/*"
  /\ last.ret.params = <<Entry("*", Str("b/a"))>>

\* the names of the named parameters of a pat
ParamNames(pat) ==
  {SubSeq(pat[n], 2, Len(pat[n])) :
     n \in {m \in 1..Len(pat) : SegKind(pat[m]) = 1}}

\* C30: for every successful Router.match, after any sequence of add calls,
\* the returned params hold exactly one entry for each ":name" segment of
\* the returned routePath, keyed by that name and holding the corresponding
\* segment of the path, plus the key "*" exactly when the routePath ends in
\* a wildcard, and no entry left from a branch that was tried and abandoned.
C30_ParamsOfRoutePath ==
  (IsMatch /\ last.kind = "return") =>
    LET pat == splitPath(last.ret.routePath)
        params == last.ret.params
        wild == pat # <<>> /\ pat[Len(pat)] = "*"
    IN /\ \A i, j \in 1..Len(params) : params[i].k = params[j].k => i = j
       /\ Keys(params) = ParamNames(pat) \cup (IF wild THEN {"*"} ELSE {})
       /\ \A n \in 1..Len(pat) :
            SegKind(pat[n]) = 1 =>
              Lookup(params, SubSeq(pat[n], 2, Len(pat[n]))) = Str(Asked[n])
       /\ wild =>
            Lookup(params, "*") = Str(join(SubSeq(Asked, Len(pat), Len(Asked)), "/"))

(***************************************************************************)
(* Routes with a config.                                                   *)
(***************************************************************************)
\* a request was handled by a route registered with a config
RouteCase == last.op = "request" /\ last.via = "route"
RouteConfig == last.after.config
StepsTaken == {last.steps[n] : n \in 1..Len(last.steps)}
\* the parse calls the config asks for: the query schema's, then the body
\* schema's
Asks ==
  (IF RouteConfig.query # 0 THEN <<RouteConfig.query>> ELSE <<>>)
    \o (IF RouteConfig.body # 0 THEN <<RouteConfig.body>> ELSE <<>>)

\* C27: for a route registered with a body and/or query schema config, the
\* user's handler is invoked only after every configured schema parsed
\* successfully; the query is validated before the body is read; a body that
\* is not valid JSON raises a ValidationError with the single issue (path "",
\* "Expected JSON body"); and on any validation failure the handler is not
\* invoked and ctx.validBody is not set.
C27_HandlerAfterValidation ==
  RouteCase =>
    /\ "handler" \in StepsTaken =>
         /\ last.steps[Len(last.steps)] = "handler"
         /\ Len(last.calls) = Len(Asks)
         /\ \A n \in 1..Len(Asks) :
              /\ last.calls[n].id = Asks[n]
              /\ last.calls[n].kind = "return"
         /\ RouteConfig.body # 0 =>
              /\ last.calls[Len(Asks)].data = last.data
              /\ Lookup(last.ctx, "validBody") = last.calls[Len(Asks)].val
         /\ RouteConfig.query # 0 =>
              Lookup(last.ctx, "validQuery") = last.calls[1].val
    /\ (RouteConfig.query # 0 /\ "req.json" \in StepsTaken) =>
         /\ last.steps[1] = "qSchema.parse"
         /\ last.calls[1].id = RouteConfig.query
         /\ last.calls[1].kind = "return"
    /\ (last.data = Malformed /\ "req.json" \in StepsTaken) =>
         /\ last.kind = "invalid"
         /\ last.issues = <<Issue("", "Expected JSON body")>>
    /\ last.kind = "invalid" =>
         /\ "handler" \notin StepsTaken
         /\ "validBody" \notin Keys(last.ctx)

\* a route with a query schema and a body schema, a query string the query
\* schema accepts and a body that is not JSON: the query was validated, the
\* body was read, and the handler was not invoked
C27_Witness ==
  /\ RouteCase
  /\ RouteConfig.query # 0
  /\ RouteConfig.body # 0
  /\ last.data = Malformed
  /\ last.steps = <<"qSchema.parse", "req.json">>
  /\ last.kind = "invalid"
  /\ last.issues = <<Issue("", "Expected JSON body")>>
  /\ Keys(last.ctx) = {"validQuery"}
  /\ last.val.status = 400

(***************************************************************************)
(* Middleware order and scope.                                             *)
(***************************************************************************)
\* a request was served by a route
RouteServed == last.op = "fetch" /\ last.kind = "return"
ServingRoute == app.handlers[last.ret.handler]
RequestPath == extractPathname(last.data.s)

\* the functions in the order the claim gives: the global and scoped
\* middleware that apply to the path, as registered, then the middleware of
\* the route, as given; each with the place it was registered at
InOrder ==
  SelectSeq(app.middlewares,
            LAMBDA m : m.path = Null \/ startsWith(RequestPath, m.path.s))
    \o [n \in 1..Len(ServingRoute.middleware) |->
          [path |-> RouteLevel, fn |-> ServingRoute.middleware[n]]]

\* the first function of InOrder that returns without calling next(), or
\* one more than their number when every one calls it
FirstToReturn ==
  LET stops == {n \in 1..Len(InOrder) : ~InOrder[n].fn.next}
  IN IF stops = {} THEN Len(InOrder) + 1
     ELSE CHOOSE n \in stops : \A m \in stops : n <= m

\* C22: for every request, the applicable global and scoped middleware run
\* in registration order, then the route-level middleware of the matched
\* route in the order given at registration, then the handler, and control
\* returns in the reverse order; a middleware that returns without calling
\* next() prevents every later middleware and the handler from running.
C22_MiddlewareOrder ==
  RouteServed =>
    LET all == Len(InOrder)
        stop == FirstToReturn
        entered == IF stop <= all THEN stop ELSE all
        resumed == stop - 1
        reached == stop = all + 1
        base == IF reached THEN entered + 1 ELSE entered
    IN /\ Len(last.steps) = base + resumed
       /\ \A n \in 1..entered :
            last.steps[n] = [name |-> InOrder[n].fn.name, at |-> "before",
                             path |-> InOrder[n].path]
       /\ reached => last.steps[base] = HandlerStep
       /\ \A n \in 1..resumed :
            last.steps[base + n] =
              [name |-> InOrder[resumed + 1 - n].fn.name, at |-> "after",
               path |-> InOrder[resumed + 1 - n].path]
       /\ ~reached => \A n \in 1..Len(last.steps) :
                         last.steps[n].name # "handler"

\* a global a and a global b, no route-level middleware: a-before, b-before,
\* handler, b-after, a-after
C22_Witness ==
  /\ RouteServed
  /\ [n \in 1..Len(last.steps) |-> <<last.steps[n].name, last.steps[n].at>>]
       = << <<"a", "before">>, <<"b", "before">>, <<"handler", "">>,
            <<"b", "after">>, <<"a", "after">> >>
  /\ \A n \in 1..Len(app.middlewares) : app.middlewares[n].path = Null
  /\ ServingRoute.middleware = <<>>

\* the segments p are the first segments of q
Under(p, q) == Len(p) <= Len(q) /\ SubSeq(q, 1, Len(p)) = p

\* C23: middleware registered on a group, or scoped with use(path, fn), does
\* not leak: it never runs for a request served by a route of a sibling
\* group or by a route registered outside the group, that is, by a route
\* that was neither registered on the group (or a group within it) nor has
\* a path under the path of the group.
C23_ScopedMiddlewareDoesNotLeak ==
  RouteServed =>
    \A n \in 1..Len(last.steps) :
      last.steps[n].path.t = "string" =>
        \/ Under(splitPath(last.steps[n].path.s), splitPath(ServingRoute.prefix))
        \/ Under(splitPath(last.steps[n].path.s), splitPath(last.ret.routePath))

(***************************************************************************)
(* Streams.                                                                *)
(***************************************************************************)
\* the stream is in its closed state: close() or abort() was called, or the
\* auto-close that follows the return of the callback, or the abort that
\* follows its throw, has run
IsClosed == stream.closed

FileServed ==
  /\ last.op = "fetch"
  /\ last.kind = "return"
  /\ app.handlers[last.ret.handler].handler.t = "static"
  /\ last.val.status = 200
ServedRoot == splitPath(app.handlers[last.ret.handler].handler.absRoot)

\* C26: the static file handler blocks path traversal: for every request
\* path, also with ".." segments or percent-encoded separators, it serves a
\* file with status 200 only when the resolved path of the file lies inside
\* the configured root directory.
C26_StaticStaysInsideRoot ==
  FileServed =>
    \E path \in Files :
      /\ last.steps # <<>>
      /\ (last.via = "GET" => last.val.body = File(path))
      /\ Len(ServedRoot) <= Len(splitPath(path))
      /\ SubSeq(splitPath(path), 1, Len(ServedRoot)) = ServedRoot

(***************************************************************************)
(* Builders: what a builder call does to the schemas.                      *)
(***************************************************************************)
Wrappers == {"optional", "nullable", "transform"}

\* a builder call changed the receiver only, by one more check or by its
\* message, and returned the receiver
InPlace ==
  /\ Len(heap') = Len(heap)
  /\ last'.id \in Ids(heap)
  /\ \A j \in Ids(heap) : j # last'.id => heap'[j] = heap[j]
  /\ LET was == heap[last'.id]
         now == heap'[last'.id]
     IN \/ /\ Len(now.checks) = Len(was.checks) + 1
           /\ SubSeq(now.checks, 1, Len(was.checks)) = was.checks
           /\ now = [was EXCEPT !.checks = now.checks]
        \/ /\ Len(now._customMessage) = 1
           /\ now = [was EXCEPT !._customMessage = now._customMessage]

\* a builder call returned a new schema without checks or message and left
\* every schema there was as it was; a wrapper refers to one of them
Fresh ==
  /\ Len(heap') = Len(heap) + 1
  /\ last'.id = Len(heap')
  /\ SubSeq(heap', 1, Len(heap)) = heap
  /\ heap'[last'.id].checks = <<>>
  /\ heap'[last'.id]._customMessage = <<>>
  /\ heap'[last'.id].kind \in Wrappers => heap'[last'.id].inner \in Ids(heap)

\* data keeps the bound of check c of a schema of class kind
Keeps(kind, c, data) ==
  CASE kind = "string" /\ c.kind = "min" -> Len(data.s) >= c.value
    [] kind = "string" /\ c.kind = "max" -> Len(data.s) <= c.value
    [] kind = "number" /\ c.kind = "min" -> ~NumLess(data, c.value)
    [] kind = "number" /\ c.kind = "max" -> ~NumGreater(data, c.value)
    [] OTHER -> TRUE

\* the latest call parsed a string or a number through a wrapper of a
\* StringSchema or a NumberSchema
ThroughWrapper ==
  /\ last.op = "parse"
  /\ last.pre[last.id].kind \in Wrappers
  /\ last.pre[last.pre[last.id].inner].kind = last.data.t
  /\ last.data.t \in {"string", "number"}
WrappedChecks == last.pre[last.pre[last.id].inner].checks

\* a parse through a wrapper returned only what keeps every bound the
\* wrapped schema holds at the time of the parse
Enforced ==
  ThroughWrapper /\ last.kind = "return" =>
    \A n \in 1..Len(WrappedChecks) :
      Keeps(last.data.t, WrappedChecks[n], last.data)

\* C28: min, max, pattern, integer and message modify the receiving schema
\* in place and return that same instance; optional(), nullable() and
\* transform() return a new schema that refers to the receiver and leave the
\* receiver's constraints and message unchanged; so a constraint attached to
\* a schema after it was wrapped is enforced by every later parse through the
\* wrapper.
C28_BuildersMutateWrappersRefer ==
  [][/\ last'.op = "build" => InPlace \/ Fresh
     /\ Enforced']_vars

\* a parse through a wrapper that is older than a bound of the schema it
\* wraps failed on that bound
C28_Witness ==
  /\ ThroughWrapper
  /\ last.kind = "invalid"
  /\ \E n \in 1..Len(WrappedChecks) :
       ~Keeps(last.data.t, WrappedChecks[n], last.data)

(***************************************************************************)
(* Bounds attached more than once.                                         *)
(***************************************************************************)
\* the latest call described a StringSchema, a NumberSchema or an ArraySchema
BoundedDescribed ==
  /\ last.op = "describe"
  /\ last.pre[last.id].kind \in {"string", "number", "array"}

\* the values of the checks of kind k of the described schema
BoundsOf(k) ==
  LET checks == last.pre[last.id].checks
  IN {checks[n].value : n \in {m \in 1..Len(checks) : checks[m].kind = k}}

\* the keyword of the bound k in the document of a schema of class kind
Keyword(kind, k) ==
  CASE kind = "string" -> IF k = "min" THEN "minLength" ELSE "maxLength"
    [] kind = "number" -> IF k = "min" THEN "minimum" ELSE "maximum"
    [] kind = "array" -> IF k = "min" THEN "minItems" ELSE "maxItems"

Exported(k) == Lookup(last.val.entries, Keyword(last.pre[last.id].kind, k))

\* C29: for a StringSchema, NumberSchema or ArraySchema on which the same
\* kind of bound was attached more than once, the bound toJsonSchema exports
\* equals the bound parse enforces: the largest attached min and the
\* smallest attached max.
C29_ExportedBoundIsEnforcedBound ==
  BoundedDescribed =>
    /\ BoundsOf("min") # {} =>
         Exported("min") =
           Num(CHOOSE x \in BoundsOf("min") : \A y \in BoundsOf("min") : y <= x)
    /\ BoundsOf("max") # {} => Exported("max") = Num(MinOf(BoundsOf("max")))

====
